---------------------------- MODULE Spec2Model ----------------------------
(***************************************************************************)
(* A model of md2pdf (Markdown to PDF with Mermaid diagrams).              *)
(*                                                                         *)
(* Text is modelled character by character: a Python str is a sequence of  *)
(* one-character strings, a list of lines is a sequence of such sequences. *)
(* Lengths are integers in tenths of a millimetre, so that reportlab's     *)
(* cm is 100 and every page size is integral.                              *)
(***************************************************************************)
EXTENDS Integers, Sequences, FiniteSets, TLC

(***************************************************************************)
(* Python str helpers                                                      *)
(***************************************************************************)

\* The characters str.strip() removes (the whitespace of the model alphabet).
WHITESPACE == {" ", "\t", "\r", "\f"}

DIGITS == {"0", "1", "2", "3", "4", "5", "6", "7", "8", "9"}

Min(a, b) == IF a < b THEN a ELSE b

\* s[n:]
From(s, n) == SubSeq(s, n + 1, Len(s))

\* s[:n]
Upto(s, n) == SubSeq(s, 1, Min(n, Len(s)))

RECURSIVE lstrip(_)
lstrip(s) ==
    IF s # <<>> /\ Head(s) \in WHITESPACE THEN lstrip(Tail(s)) ELSE s

RECURSIVE rstrip(_)
rstrip(s) ==
    IF s # <<>> /\ s[Len(s)] \in WHITESPACE
    THEN rstrip(SubSeq(s, 1, Len(s) - 1))
    ELSE s

strip(s) == rstrip(lstrip(s))

startswith(s, p) == Len(s) >= Len(p) /\ SubSeq(s, 1, Len(p)) = p

\* sub in s
contains(s, sub) ==
    \E k \in 1..(Len(s) - Len(sub) + 1) : SubSeq(s, k, k + Len(sub) - 1) = sub

\* sep.join(ls)
RECURSIVE join(_, _)
join(sep, ls) ==
    IF ls = <<>> THEN <<>>
    ELSE IF Len(ls) = 1 THEN ls[1]
    ELSE LET half == Len(ls) \div 2
         IN  join(sep, SubSeq(ls, 1, half)) \o sep
             \o join(sep, SubSeq(ls, half + 1, Len(ls)))

\* The concatenation of a sequence of sequences.
RECURSIVE Flatten(_)
Flatten(ss) == IF ss = <<>> THEN <<>> ELSE Head(ss) \o Flatten(Tail(ss))

(***************************************************************************)
(* parse_markdown: the line scanner                                        *)
(***************************************************************************)

\* A backtick cannot be written in a string of this language: the character
\* U+0060 is the token "BACKTICK".
BACKTICK == "BACKTICK"

FENCE == <<BACKTICK, BACKTICK, BACKTICK>>

MERMAID == <<"m", "e", "r", "m", "a", "i", "d">>

\* An element is the pair (type, content); None is the empty sequence.
Element(t, c) == [type |-> t, content |-> c]

\* The length of the match of ^\d+\.\s at the start of s, 0 when there is none.
RECURSIVE DigitRun(_)
DigitRun(s) == IF s # <<>> /\ Head(s) \in DIGITS THEN 1 + DigitRun(Tail(s)) ELSE 0

NumListPrefix(s) ==
    LET d == DigitRun(s)
    IN  IF d >= 1 /\ Len(s) >= d + 2 /\ s[d + 1] = "." /\ s[d + 2] \in WHITESPACE
        THEN d + 2
        ELSE 0

\* The if/elif chain on a line that is neither fence, code nor table.
LineElement(line) ==
    LET s == strip(line)
    IN  IF startswith(line, <<"#", " ">>) THEN Element("h1", strip(From(line, 2)))
        ELSE IF startswith(line, <<"#", "#", " ">>)
            THEN Element("h2", strip(From(line, 3)))
        ELSE IF startswith(line, <<"#", "#", "#", " ">>)
            THEN Element("h3", strip(From(line, 4)))
        ELSE IF startswith(line, <<"#", "#", "#", "#", " ">>)
            THEN Element("h4", strip(From(line, 5)))
        ELSE IF startswith(s, <<"-", " ">>) \/ startswith(s, <<"*", " ">>)
            THEN Element("list", From(s, 2))
        ELSE IF NumListPrefix(s) > 0
            THEN Element("numlist", From(s, NumListPrefix(s)))
        ELSE IF s \in {<<"-", "-", "-">>, <<"*", "*", "*">>, <<"_", "_", "_">>}
            THEN Element("hr", <<>>)
        ELSE IF s # <<>> THEN Element("p", s)
        ELSE Element("space", <<>>)

\* The scanner's local variables before the first line. Three fields are not
\* the scanner's own and record where its elements come from: line_no counts
\* the lines read, code_at and table_at are the lines at which the open fence
\* and the open table began, and starts holds, for each element of elements, the line at
\* which it began.
ParseStart ==
    [elements |-> <<>>, in_code_block |-> FALSE, code_block_lines |-> <<>>,
     code_block_lang |-> <<>>, in_table |-> FALSE, table_lines |-> <<>>,
     line_no |-> 0, code_at |-> 0, table_at |-> 0, starts |-> <<>>]

\* One iteration of the loop over the lines.
ParseLine(st, line) ==
    LET n == st.line_no + 1
    IN
    IF startswith(strip(line), FENCE)
    THEN IF st.in_code_block
         THEN [st EXCEPT
                 !.elements = Append(@,
                     Element(IF st.code_block_lang = MERMAID THEN "mermaid" ELSE "code",
                             join(<<"\n">>, st.code_block_lines))),
                 !.code_block_lines = <<>>,
                 !.code_block_lang = <<>>,
                 !.in_code_block = FALSE,
                 !.starts = Append(@, st.code_at),
                 !.line_no = n]
         ELSE [st EXCEPT
                 !.in_code_block = TRUE,
                 !.code_block_lang = strip(From(strip(line), 3)),
                 !.code_at = n,
                 !.line_no = n]
    ELSE IF st.in_code_block
    THEN [st EXCEPT !.code_block_lines = Append(@, line), !.line_no = n]
    ELSE IF contains(line, <<"|">>) /\ strip(line) # <<>>
    THEN [st EXCEPT
            !.in_table = TRUE,
            !.table_lines = Append(IF st.in_table THEN @ ELSE <<>>, line),
            !.table_at = IF st.in_table THEN @ ELSE n,
            !.line_no = n]
    ELSE LET st1 == IF st.in_table
                    THEN [st EXCEPT
                            !.elements = Append(@, Element("table", st.table_lines)),
                            !.table_lines = <<>>,
                            !.in_table = FALSE,
                            !.starts = Append(@, st.table_at)]
                    ELSE st
         IN  [st1 EXCEPT !.elements = Append(@, LineElement(line)),
                         !.starts = Append(@, n),
                         !.line_no = n]

RECURSIVE ParseLines(_, _)
ParseLines(st, lines) ==
    IF lines = <<>> THEN st
    ELSE IF Len(lines) = 1 THEN ParseLine(st, lines[1])
    ELSE LET half == Len(lines) \div 2
             first == ParseLines(st, SubSeq(lines, 1, half))
         IN  IF first.in_code_block \in BOOLEAN
             THEN ParseLines(first, SubSeq(lines, half + 1, Len(lines)))
             ELSE first

\* parse_markdown(md_text), md_text given as md_text.split('\n').
parse_markdown(lines) ==
    LET st == ParseLines(ParseStart, lines)
    IN  IF st.in_table
        THEN Append(st.elements, Element("table", st.table_lines))
        ELSE st.elements

\* The line at which each element of parse_markdown(lines) began, in the
\* order of the elements.
element_starts(lines) ==
    LET st == ParseLines(ParseStart, lines)
    IN  IF st.in_table THEN Append(st.starts, st.table_at) ELSE st.starts

(***************************************************************************)
(* The inline formatter: remove_emoji, remove_hyperlinks, escaping, bold   *)
(* and inline code                                                         *)
(***************************************************************************)

\* ord(char). The characters outside ASCII are written as the tokens below;
\* every other character of the model alphabet is ASCII, of which only its
\* lying below every emoji range matters.
ord(c) ==
    CASE c = "U+2192" -> 8594        \* rightwards arrow
      [] c = "U+231A" -> 8986        \* watch
      [] c = "U+2605" -> 9733        \* black star
      [] c = "U+2713" -> 10003       \* check mark
      [] c = "U+FE0F" -> 65039       \* variation selector 16
      [] c = "U+1F600" -> 128512     \* grinning face
      [] c = "U+1F680" -> 128640     \* rocket
      [] OTHER -> 127

\* The is_emoji test of remove_emoji.
is_emoji(codepoint) ==
    \/ (codepoint >= 127744 /\ codepoint <= 129535)    \* 0x1F300-0x1F9FF
    \/ (codepoint >= 9728 /\ codepoint <= 9983)        \* 0x2600-0x26FF
    \/ (codepoint >= 9984 /\ codepoint <= 10175)       \* 0x2700-0x27BF
    \/ (codepoint >= 128512 /\ codepoint <= 128591)    \* 0x1F600-0x1F64F
    \/ (codepoint >= 128640 /\ codepoint <= 128767)    \* 0x1F680-0x1F6FF
    \/ (codepoint >= 8960 /\ codepoint <= 9215)        \* 0x2300-0x23FF
    \/ (codepoint >= 65024 /\ codepoint <= 65039)      \* 0xFE00-0xFE0F

RECURSIVE remove_emoji(_)
remove_emoji(text) ==
    IF text = <<>> THEN text
    ELSE (IF is_emoji(ord(Head(text))) THEN <<>> ELSE <<Head(text)>>)
         \o remove_emoji(Tail(text))

\* The least k >= from with s[k] = c, 0 when there is none.
RECURSIVE IndexOf(_, _, _)
IndexOf(s, c, from) ==
    IF from > Len(s) THEN 0
    ELSE IF s[from] = c THEN from
    ELSE IndexOf(s, c, from + 1)

\* The match of \[([^\]]+)\]\([^\)]+\) at the start of s: its length (0 when
\* there is none) and its group 1. A negated class followed by the character
\* it excludes can only end at that character's first occurrence.
MatchInlineLink(s) ==
    LET j == IndexOf(s, "]", 2)
        k == IF j = 0 THEN 0 ELSE IndexOf(s, ")", j + 2)
    IN  IF s # <<>> /\ s[1] = "[" /\ j >= 3 /\ Len(s) > j /\ s[j + 1] = "("
           /\ k >= j + 3
        THEN [len |-> k, group |-> SubSeq(s, 2, j - 1)]
        ELSE [len |-> 0, group |-> <<>>]

\* The match of \[([^\]]+)\]\[[^\]]+\] at the start of s.
MatchRefLink(s) ==
    LET j == IndexOf(s, "]", 2)
        k == IF j = 0 THEN 0 ELSE IndexOf(s, "]", j + 2)
    IN  IF s # <<>> /\ s[1] = "[" /\ j >= 3 /\ Len(s) > j /\ s[j + 1] = "["
           /\ k >= j + 3
        THEN [len |-> k, group |-> SubSeq(s, 2, j - 1)]
        ELSE [len |-> 0, group |-> <<>>]

\* re.sub(r'\[([^\]]+)\]\([^\)]+\)', r'\1', text): leftmost matches, left to right.
RECURSIVE SubInlineLinks(_)
SubInlineLinks(s) ==
    IF s = <<>> THEN <<>>
    ELSE LET m == MatchInlineLink(s)
         IN  IF m.len > 0
             THEN m.group \o SubInlineLinks(From(s, m.len))
             ELSE <<Head(s)>> \o SubInlineLinks(Tail(s))

\* re.sub(r'\[([^\]]+)\]\[[^\]]+\]', r'\1', text)
RECURSIVE SubRefLinks(_)
SubRefLinks(s) ==
    IF s = <<>> THEN <<>>
    ELSE LET m == MatchRefLink(s)
         IN  IF m.len > 0
             THEN m.group \o SubRefLinks(From(s, m.len))
             ELSE <<Head(s)>> \o SubRefLinks(Tail(s))

\* The length of the greedy match of \s* at the start of s.
RECURSIVE SpaceRun(_)
SpaceRun(s) ==
    IF s # <<>> /\ Head(s) \in WHITESPACE \cup {"\n"} THEN 1 + SpaceRun(Tail(s)) ELSE 0

\* The length of the match of \[([^\]]+)\]:\s*.*$ at the start of s (a line
\* start), 0 when there is none: after the colon the greedy \s* takes every
\* white character, line breaks included, and .*$ the rest of that line.
MatchRefDef(s) ==
    LET j == IndexOf(s, "]", 2)
        w == IF j = 0 THEN 0 ELSE j + 1 + SpaceRun(From(s, j + 1))
        e == IF j = 0 THEN 0 ELSE IndexOf(s, "\n", w + 1)
    IN  IF s # <<>> /\ s[1] = "[" /\ j >= 3 /\ Len(s) > j /\ s[j + 1] = ":"
        THEN (IF e = 0 THEN Len(s) ELSE e - 1)
        ELSE 0

\* re.sub(r'^\[([^\]]+)\]:\s*.*$', '', text, flags=re.MULTILINE); bol says
\* whether s starts at the beginning of a line.
RECURSIVE SubRefDefs(_, _)
SubRefDefs(s, bol) ==
    IF s = <<>> THEN <<>>
    ELSE IF bol /\ MatchRefDef(s) > 0
    THEN SubRefDefs(From(s, MatchRefDef(s)), FALSE)
    ELSE <<Head(s)>> \o SubRefDefs(Tail(s), Head(s) = "\n")

remove_hyperlinks(text) ==
    IF text = <<>> THEN text
    ELSE SubRefDefs(SubRefLinks(SubInlineLinks(text)), TRUE)

\* text.replace(old, new) for a one-character old.
RECURSIVE replace(_, _, _)
replace(s, old, new) ==
    IF s = <<>> THEN <<>>
    ELSE (IF Head(s) = old THEN new ELSE <<Head(s)>>) \o replace(Tail(s), old, new)

\* content.replace('&', '&amp;').replace('<', '&lt;').replace('>', '&gt;')
escape_xml(s) ==
    replace(replace(replace(s, "&", <<"&", "a", "m", "p", ";">>),
                    "<", <<"&", "l", "t", ";">>),
            ">", <<"&", "g", "t", ";">>)

\* The least q >= from at which delim starts in s with no line break in
\* s[from0..q-1], 0 when there is none: where a lazy (.+?) followed by delim
\* ends.
RECURSIVE LazyEnd(_, _, _)
LazyEnd(s, delim, from) ==
    IF from + Len(delim) - 1 > Len(s) THEN 0
    ELSE IF SubSeq(s, from, from + Len(delim) - 1) = delim THEN from
    ELSE IF s[from] = "\n" THEN 0
    ELSE LazyEnd(s, delim, from + 1)

\* The match of delim(.+?)delim at the start of s: its length (0 when there is
\* none) and its group 1.
MatchDelimited(s, delim) ==
    LET d == Len(delim)
        q == IF Len(s) > d /\ s[d + 1] # "\n" THEN LazyEnd(s, delim, d + 2) ELSE 0
    IN  IF startswith(s, delim) /\ q > 0
        THEN [len |-> q + d - 1, group |-> SubSeq(s, d + 1, q - 1)]
        ELSE [len |-> 0, group |-> <<>>]

\* re.sub(delim(.+?)delim, open \1 close, s)
RECURSIVE SubDelimited(_, _, _, _)
SubDelimited(s, delim, open, close) ==
    IF s = <<>> THEN <<>>
    ELSE LET m == MatchDelimited(s, delim)
         IN  IF m.len > 0
             THEN open \o m.group \o close
                  \o SubDelimited(From(s, m.len), delim, open, close)
             ELSE <<Head(s)>> \o SubDelimited(Tail(s), delim, open, close)

B_OPEN == <<"<", "b", ">">>

B_CLOSE == <<"<", "/", "b", ">">>

FONT_OPEN ==
    <<"<", "f", "o", "n", "t", " ", "f", "a", "c", "e", "=", "\"", "c", "o", "u",
      "r", "i", "e", "r", "\"", " ", "c", "o", "l", "o", "r", "=", "\"", "#", "6",
      "6", "6", "6", "6", "6", "\"", ">">>

FONT_CLOSE == <<"<", "/", "f", "o", "n", "t", ">">>

\* The two re.sub calls after the escaping: bold, then inline code.
apply_markdown(s) ==
    SubDelimited(SubDelimited(s, <<"*", "*">>, B_OPEN, B_CLOSE),
                 <<BACKTICK>>, FONT_OPEN, FONT_CLOSE)

\* The formatting of a table cell: escaping, bold, inline code.
format_cell(cell) == apply_markdown(escape_xml(cell))

\* The formatting of the content of a p, list or numlist element.
format_inline(content) ==
    apply_markdown(escape_xml(remove_hyperlinks(remove_emoji(content))))

\* The formatting of the content of a heading.
format_heading(content) == remove_hyperlinks(remove_emoji(content))

(***************************************************************************)
(* The flowables of the story                                              *)
(***************************************************************************)

\* Every flowable is a record of one shape: kind, style and text (Paragraph,
\* Preformatted), height in millimetres (Spacer), img_path (HighQualityImage)
\* and items (the group of a KeepTogether, the rows of a Table).
Flowable(kind, style, text, height, img_path, items) ==
    [kind |-> kind, style |-> style, text |-> text, height |-> height,
     img_path |-> img_path, items |-> items]

Paragraph(text, style) == Flowable("Paragraph", style, text, 0, 0, <<>>)

Preformatted(text, style) == Flowable("Preformatted", style, text, 0, 0, <<>>)

Spacer(height) == Flowable("Spacer", "", <<>>, height, 0, <<>>)

HighQualityImage(img_path) == Flowable("HighQualityImage", "", <<>>, 0, img_path, <<>>)

KeepTogether(group) == Flowable("KeepTogether", "", <<>>, 0, 0, group)

Table(table_data) == Flowable("Table", "", <<>>, 0, 0, table_data)

NOTE_FAILED ==
    <<"<", "i", ">", "M", "e", "r", "m", "a", "i", "d", " ", "d", "i", "a", "g",
      "r", "a", "m", " ", "(", "r", "e", "n", "d", "e", "r", "i", "n", "g", " ",
      "f", "a", "i", "l", "e", "d", ")", "<", "/", "i", ">">>

\* f"<i>Mermaid diagram (error: {str(e)})</i>"
NoteError(msg) ==
    <<"<", "i", ">", "M", "e", "r", "m", "a", "i", "d", " ", "d", "i", "a", "g",
      "r", "a", "m", " ", "(", "e", "r", "r", "o", "r", ":", " ">>
    \o msg \o <<")", "<", "/", "i", ">">>

\* str(e) of the exception caught around a rendering.
ERR_MSG == <<"E">>

\* diagram_content[:500]
FALLBACK_CHARS == 500

(***************************************************************************)
(* The rendering of one diagram block                                      *)
(***************************************************************************)

\* What can happen inside the try block around one rendering:
\*   tmpfail  tempfile.NamedTemporaryFile raises, no file is created
\*   false    render_mermaid_to_png returns False
\*   raise    the renderer raises
\*   ok       the renderer returns True and HighQualityImage opens the image
\*   imgfail  the renderer returns True and HighQualityImage raises
Outcomes == {"tmpfail", "false", "raise", "ok", "imgfail"}

\* A faulty variant of DiagramFlowables: no spacer after the image.
DiagramFlowablesNoTrailingSpacer(enabled, outcome, content, tmp_path_png) ==
    IF ~enabled THEN <<Preformatted(content, "CustomCode")>>
    ELSE CASE outcome = "ok" ->
                <<Spacer(3), HighQualityImage(tmp_path_png)>>
           [] outcome = "false" ->
                <<Paragraph(NOTE_FAILED, "Normal"),
                  Preformatted(Upto(content, FALLBACK_CHARS), "CustomCode")>>
           [] outcome = "imgfail" ->
                <<Spacer(3), Paragraph(NoteError(ERR_MSG), "Normal")>>
           [] OTHER ->
                <<Paragraph(NoteError(ERR_MSG), "Normal")>>

\* The flowables one diagram block appends (to the group or to the story).
\* enabled is enable_mermaid and MERMAID_AVAILABLE and playwright_available.
DiagramFlowables(enabled, outcome, content, tmp_path_png) ==
    IF ~enabled THEN <<Preformatted(content, "CustomCode")>>
    ELSE CASE outcome = "ok" ->
                <<Spacer(3), HighQualityImage(tmp_path_png), Spacer(5)>>
           [] outcome = "false" ->
                <<Paragraph(NOTE_FAILED, "Normal"),
                  Preformatted(Upto(content, FALLBACK_CHARS), "CustomCode")>>
           [] outcome = "imgfail" ->
                <<Spacer(3), Paragraph(NoteError(ERR_MSG), "Normal")>>
           [] OTHER ->
                <<Paragraph(NoteError(ERR_MSG), "Normal")>>

\* The outcomes that are an exception.
Raising == {"tmpfail", "raise", "imgfail"}

\* A faulty variant of GuardedByTry: the temporary file is made before the try.
GuardedByTryLate == {"raise", "imgfail"}

\* The raising statements that lie inside the try block, whose except clause
\* catches Exception.
GuardedByTry == {"tmpfail", "raise", "imgfail"}

\* Whether the exception leaves convert_markdown_to_pdf.
Escapes(outcome) == outcome \in Raising /\ outcome \notin GuardedByTry

\* Whether the rendering reached temp_files.append(tmp_path_png).
CreatesTempFile(enabled, outcome) == enabled /\ outcome # "tmpfail"

\* A faulty variant of CountsAsRendered: the counter is incremented as soon as
\* the renderer reports success, before the image is made.
CountsAsRenderedEarly(enabled, outcome) == enabled /\ outcome \in {"ok", "imgfail"}

\* Whether the rendering reached mermaid_rendered += 1.
CountsAsRendered(enabled, outcome) == enabled /\ outcome = "ok"

(***************************************************************************)
(* The code and table handlers                                             *)
(***************************************************************************)

\* s.split(c) for a one-character c.
RECURSIVE split(_, _)
split(s, c) ==
    LET at == {k \in 1..Len(s) : s[k] = c}
        mid == (Len(s) + 1) \div 2
        Dist(k) == IF k < mid THEN mid - k ELSE k - mid
    IN  IF at = {} THEN <<s>>
        ELSE LET k == CHOOSE k \in at : \A j \in at : Dist(k) <= Dist(j)
             IN  split(SubSeq(s, 1, k - 1), c) \o split(From(s, k), c)

\* if len(line) > 95
WRAP_COLUMN == 95

MAX_LINES == 100

\* The formatted_lines of one line of a code block.
wrap_line(line) ==
    IF Len(line) > WRAP_COLUMN
    THEN <<Upto(line, WRAP_COLUMN), <<" ", " ">> \o From(line, WRAP_COLUMN)>>
    ELSE <<line>>

RECURSIVE formatted_lines(_)
formatted_lines(lines) ==
    IF lines = <<>> THEN <<>>
    ELSE IF Len(lines) = 1 THEN wrap_line(lines[1])
    ELSE LET half == Len(lines) \div 2
         IN  formatted_lines(SubSeq(lines, 1, half))
             \o formatted_lines(SubSeq(lines, half + 1, Len(lines)))

\* A faulty variant of CodeChunks: a spacer follows every chunk, the last one
\* included.
RECURSIVE CodeChunksSpacerAfterEach(_, _)
CodeChunksSpacerAfterEach(fl, chunk_idx) ==
    IF chunk_idx >= Len(fl) THEN <<>>
    ELSE <<Preformatted(join(<<"\n">>,
                             SubSeq(fl, chunk_idx + 1, Min(chunk_idx + MAX_LINES, Len(fl)))),
                        "CustomCode"),
           Spacer(1)>>
         \o CodeChunksSpacerAfterEach(fl, chunk_idx + MAX_LINES)

\* The flowables of range(chunk_idx, len(formatted_lines), MAX_LINES).
RECURSIVE CodeChunks(_, _)
CodeChunks(fl, chunk_idx) ==
    IF chunk_idx >= Len(fl) THEN <<>>
    ELSE <<Preformatted(join(<<"\n">>,
                             SubSeq(fl, chunk_idx + 1, Min(chunk_idx + MAX_LINES, Len(fl)))),
                        "CustomCode")>>
         \o (IF chunk_idx + MAX_LINES < Len(fl) THEN <<Spacer(1)>> ELSE <<>>)
         \o CodeChunks(fl, chunk_idx + MAX_LINES)

CodeFlowables(content) == CodeChunks(formatted_lines(split(content, "\n")), 0)

\* [cell.strip() for cell in line.split('|') if cell.strip()]
RECURSIVE StripNonEmpty(_)
StripNonEmpty(cells) ==
    IF cells = <<>> THEN <<>>
    ELSE (IF strip(Head(cells)) # <<>> THEN <<strip(Head(cells))>> ELSE <<>>)
         \o StripNonEmpty(Tail(cells))

RECURSIVE ProcessCells(_)
ProcessCells(cells) ==
    IF cells = <<>> THEN <<>>
    ELSE <<Paragraph(format_cell(Head(cells)), "Normal")>> \o ProcessCells(Tail(cells))

\* table_data after the loop over the lines of a table element.
RECURSIVE table_data(_)
table_data(lines) ==
    IF lines = <<>> THEN <<>>
    ELSE LET line == Head(lines)
             cells == StripNonEmpty(split(line, "|"))
         IN  (IF contains(line, <<"-", "-", "-">>) \/ contains(line, <<"=", "=", "=">>)
              THEN <<>>
              ELSE IF cells # <<>> THEN <<ProcessCells(cells)>> ELSE <<>>)
             \o table_data(Tail(lines))

TableFlowables(content) ==
    IF table_data(content) # <<>> THEN <<Table(table_data(content))>> ELSE <<>>

(***************************************************************************)
(* HighQualityImage: the sizing of an image                                *)
(***************************************************************************)

\* reportlab.lib.units.cm, in the length unit of the model
cm == 100

MIN_HEIGHT_CM == 8

MIN_HEIGHT_PT == MIN_HEIGHT_CM * cm

\* A float is modelled as an exact fraction <<numerator, denominator>> with a
\* positive denominator: 0.90 is 90/100 and 0.75 is 75/100, rounding is left out.
Frac(n, d) == <<n, d>>

FMul(a, b) == <<a[1] * b[1], a[2] * b[2]>>

\* a / b for b > 0
FDiv(a, b) == <<a[1] * b[2], a[2] * b[1]>>

FGt(a, b) == a[1] * b[2] > b[1] * a[2]

FEq(a, b) == a[1] * b[2] = b[1] * a[2]

FLe(a, b) == a[1] * b[2] <= b[1] * a[2]

\* self.aspect_ratio of an image of the given size in pixels
AspectRatio(width_px, height_px) == Frac(height_px, width_px)

\* A faulty variant of NeedsMoreSpace: the threshold without its unit.
NeedsMoreSpaceNoUnit(availHeight) == availHeight < MIN_HEIGHT_CM

\* if availHeight < MIN_HEIGHT_PT
NeedsMoreSpace(availHeight) == availHeight < MIN_HEIGHT_PT

\* A faulty variant of ConstrainedSize: it keeps the width of the first
\* candidate when it switches to the height.
ConstrainedSizeStaleWidth(aspect_ratio, availWidth, availHeight) ==
    LET max_width == FMul(Frac(availWidth, 1), Frac(90, 100))
        max_height == FMul(Frac(availHeight, 1), Frac(75, 100))
    IN  IF FGt(FMul(max_width, aspect_ratio), max_height)
        THEN <<max_width, max_height>>
        ELSE <<max_width, FMul(max_width, aspect_ratio)>>

\* The pair (width_constrained, height_constrained) wrap stores and returns
\* when the available height is enough.
ConstrainedSize(aspect_ratio, availWidth, availHeight) ==
    LET max_width == FMul(Frac(availWidth, 1), Frac(90, 100))
        max_height == FMul(Frac(availHeight, 1), Frac(75, 100))
        width_constrained == max_width
        height_constrained == FMul(width_constrained, aspect_ratio)
    IN  IF FGt(height_constrained, max_height)
        THEN <<FDiv(max_height, aspect_ratio), max_height>>
        ELSE <<width_constrained, height_constrained>>

\* The sizes of the rendered images, in pixels, go up to MaxPx.
MaxPx == 4

\* The availWidth and availHeight the frame offers: around the floor, and the
\* frame of an A4 page with its 2 cm margins.
AvailWidths == {1, 900, 1700}

AvailHeights == {0, 1, MIN_HEIGHT_PT - 1, MIN_HEIGHT_PT, MIN_HEIGHT_PT + 1, 1200, 2570}

VARIABLES
    img_width_px,           \* the fields of one HighQualityImage
    img_height_px,
    display,                \* <<display_width, display_height>>, <<>> while unset
    wrap_args,              \* the arguments of the last call of wrap, <<>> before
    wrap_ret                \* what the last call of wrap returned, <<>> before

imageVars == <<img_width_px, img_height_px, display, wrap_args, wrap_ret>>

\* No image is being sized.
NoImage ==
    /\ img_width_px = 1
    /\ img_height_px = 1
    /\ display = <<>>
    /\ wrap_args = <<>>
    /\ wrap_ret = <<>>

(***************************************************************************)
(* The inline formatter on one leaf text                                   *)
(***************************************************************************)

VARIABLES
    text,                   \* the leaf text, then what the formatter made of it
    passes                  \* how many times the formatter has run on it

formatVars == <<text, passes>>

\* No text is being formatted.
NoFormat ==
    /\ text = <<>>
    /\ passes = 0

(***************************************************************************)
(* One call of render_mermaid_to_png                                       *)
(***************************************************************************)

VARIABLES
    PLAYWRIGHT_AVAILABLE,   \* the module global set by the guarded import
    mermaid_code,           \* the argument
    output_path,            \* the argument, by its extension: ".svg" or ".png"
    render_pc,              \* "idle", "check", "session", "except", "returned",
                            \* or "raised" once an exception has left the function
    render_step,            \* the step of the session about to run, 0 outside it
    failed_at,              \* the step that raised, "none" while none has
    output_written,         \* the image has been written to output_path
    render_ret              \* <<the value returned>>, <<>> before the return

renderVars ==
    <<PLAYWRIGHT_AVAILABLE, mermaid_code, output_path, render_pc, render_step,
      failed_at, output_written, render_ret>>

\* No diagram is being rendered.
NoRender ==
    /\ PLAYWRIGHT_AVAILABLE = FALSE
    /\ mermaid_code = <<>>
    /\ output_path = ".png"
    /\ render_pc = "idle"
    /\ render_step = 0
    /\ failed_at = "none"
    /\ output_written = FALSE
    /\ render_ret = <<>>

(***************************************************************************)
(* The page and its frame, as one image is placed                          *)
(***************************************************************************)

VARIABLES
    page_size,              \* the argument of convert_markdown_to_pdf
    orientation,            \* the argument
    final_pagesize,         \* get_page_size(page_size, orientation), <<>> before
    before,                 \* the height of the members of the group before the image
    avail,                  \* the height the frame offers the image
    deferrals,              \* how many times the image was moved to a fresh page
    placed                  \* the image has been put on a page

pageVars == <<page_size, orientation, final_pagesize, before, avail, deferrals, placed>>

\* No image is being placed.
NoPage ==
    /\ page_size = "a4"
    /\ orientation = "portrait"
    /\ final_pagesize = <<>>
    /\ before = 0
    /\ avail = 0
    /\ deferrals = 0
    /\ placed = FALSE

(***************************************************************************)
(* One call of convert_markdown_to_pdf_html                                *)
(***************************************************************************)

VARIABLES
    html_pc,                \* "idle", "mermaid", "html", "pdf", "returned"
    html_enable_mermaid,    \* the argument enable_mermaid
    html_playwright,        \* is_playwright_available()
    matches,                \* the mermaid blocks found and not yet rendered
    temp_images,            \* the list of _process_mermaid_diagrams
    html_path,              \* the name of the temporary HTML file, <<>> before
    on_disk,                \* the temporary files that exist
    html_unlinked,          \* the temporary files os.unlink was called on
    html_result             \* the dict returned, <<>> before the return

htmlVars ==
    <<html_pc, html_enable_mermaid, html_playwright, matches, temp_images, html_path,
      on_disk, html_unlinked, html_result>>

\* No HTML conversion is running.
NoHtml ==
    /\ html_pc = "idle"
    /\ html_enable_mermaid = FALSE
    /\ html_playwright = FALSE
    /\ matches = 0
    /\ temp_images = <<>>
    /\ html_path = <<>>
    /\ on_disk = {}
    /\ html_unlinked = {}
    /\ html_result = <<>>

(***************************************************************************)
(* One run of cli.main                                                     *)
(***************************************************************************)

VARIABLES
    cli_pc,                 \* "idle", "start", "convert", "converting", "report",
                            \* "except", "returned"
    engine,                 \* args.engine
    output_exists,          \* a file exists at output_path
    cli_result,             \* the dict the converter returned, <<>> before
    raised,                 \* the exception caught by main, "none" while none
    reported_created,       \* main printed "[OK] PDF created"
    exit_code               \* <<the value main returned>>, <<>> before

cliVars ==
    <<cli_pc, engine, output_exists, cli_result, raised, reported_created, exit_code>>

\* main is not running.
NoCli ==
    /\ cli_pc = "idle"
    /\ engine = "html"
    /\ output_exists = FALSE
    /\ cli_result = <<>>
    /\ raised = "none"
    /\ reported_created = FALSE
    /\ exit_code = <<>>

ioVars == <<htmlVars, cliVars>>

\* The variables the conversion of a document leaves alone.
nonPassVars == <<imageVars, formatVars, renderVars, pageVars, ioVars>>

(***************************************************************************)
(* The input documents                                                     *)
(***************************************************************************)

\* A document is built from parts, each a few whole lines.
H1_PART == << <<"#", " ", "[", "A", "]", "(", "u", ")">> >>

H2_PART == << <<"#", "#", " ", "T", "i", "t", "l", "e">> >>

H3_PART == << <<"#", "#", "#", " ", "S", "u", "b">> >>

H4_PART == << <<"#", "#", "#", "#", " ", "D">> >>

MERMAID_PART ==
    << FENCE \o MERMAID, <<"A", "-", ">", "B">>, FENCE >>

BLANK_PART == << <<>> >>

P_PART == << <<"a", "&", "b", " ", "*", "*", "c", "*", "*">> >>

LIST_PART == << <<"-", " ", "i">> >>

NUMLIST_PART == << <<"1", ".", " ", "n">> >>

CODE_PART == << FENCE, <<"x", "=", "1">>, FENCE >>

TABLE_PART ==
    << <<"|", " ", "a", " ", "|", " ", "b", " ", "|">>,
       <<"|", "-", "-", "-", "|", "-", "-", "-", "|">>,
       <<"|", " ", "1", " ", "|", " ", "2", " ", "|">> >>

HR_PART == << <<"-", "-", "-">> >>

\* A table of a separator line only: the handler keeps no row of it.
RULE_TABLE_PART == << <<"|", "-", "-", "-", "|", "-", "-", "-", "|">> >>

\* The parts of the heading and diagram patterns.
GroupParts == {H2_PART, H3_PART, H4_PART, MERMAID_PART, BLANK_PART}

AllParts ==
    GroupParts \cup {H1_PART, P_PART, LIST_PART, NUMLIST_PART, CODE_PART,
                     TABLE_PART, HR_PART, RULE_TABLE_PART}

\* The longest sequence of GroupParts, and of AllParts, in a document.
MaxParts == 4

MaxMixed == 2

SeqsUpTo(S, n) == UNION {[1..m -> S] : m \in 1..n}

\* markdown_text.split('\n') of the documents checked.
Docs ==
    {Flatten(ps) : ps \in SeqsUpTo(GroupParts, MaxParts) \cup SeqsUpTo(AllParts, MaxMixed)}

(***************************************************************************)
(* convert_markdown_to_pdf                                                 *)
(***************************************************************************)

VARIABLES
    markdown_text,          \* the argument, as its lines
    enable_mermaid,         \* the argument
    playwright_available,   \* is_playwright_available()
    elements,               \* parse_markdown(markdown_text)
    mermaid_count,
    mermaid_rendered,
    story,
    temp_files,
    i,                      \* the cursor of the while loop (from 0, as in the code)
    pc,                     \* "pass", "build", "cleanup", "returned", or "raised"
                            \* once an exception has left the function
    cleaned,                \* how many of temp_files the cleanup loop has visited
    result,                 \* the dict returned, <<>> before the return
    files,                  \* the temporary files that exist on disk
    src,                    \* history: src[k] lists the cursor positions of the
                            \* elements story[k] was made from
    outcomes,               \* history: the outcome of each rendering, in order
    unlinked                \* history: the files os.unlink was called on

passVars ==
    <<markdown_text, enable_mermaid, playwright_available, elements, mermaid_count,
      mermaid_rendered, story, temp_files, i, pc, cleaned, result, files, src,
      outcomes, unlinked>>

\* from .mermaid import ...: the module is part of the package, the import of
\* playwright is guarded inside it.
MERMAID_AVAILABLE == TRUE

\* elements[k] for the 0-based k of the code.
At(k) == elements[k + 1]

Types(k) == At(k).type

\* The index of the first element at or after k that is no space.
RECURSIVE SkipSpaces(_)
SkipSpaces(k) ==
    IF k < Len(elements) /\ Types(k) = "space" THEN SkipSpaces(k + 1) ELSE k

\* A faulty variant of next_idx: the look-ahead does not skip the spaces.
next_idx_adjacent == i + 1

next_idx == SkipSpaces(i + 1)

\* A faulty variant of next_is_diagram: only the very next element counts.
next_is_diagram_adjacent == i + 1 < Len(elements) /\ Types(i + 1) = "mermaid"

next_is_diagram == next_idx < Len(elements) /\ Types(next_idx) = "mermaid"

\* A faulty variant of next_is_h3_or_h4: a heading of any level counts.
next_is_any_heading ==
    next_idx < Len(elements) /\ Types(next_idx) \in {"h1", "h2", "h3", "h4"}

next_is_h3_or_h4 == next_idx < Len(elements) /\ Types(next_idx) \in {"h3", "h4"}

nested_h_idx == next_idx

\* A faulty variant of nested_diagram_idx: check_idx does not skip the spaces.
nested_diagram_idx_adjacent == next_idx + 1

nested_diagram_idx == SkipSpaces(next_idx + 1)

h2_has_nested_diagram ==
    /\ Types(i) = "h2"
    /\ next_is_h3_or_h4
    /\ nested_diagram_idx < Len(elements)
    /\ Types(nested_diagram_idx) = "mermaid"

RenderingEnabled == enable_mermaid /\ MERMAID_AVAILABLE /\ playwright_available

\* The name NamedTemporaryFile gives its next file.
NewTempFile == Len(temp_files) + 1

CountType(es, t) == Cardinality({k \in 1..Len(es) : es[k].type = t})

TitleStyle(t) ==
    CASE t = "h1" -> "CustomH1"
      [] t = "h2" -> "CustomH2"
      [] t = "h3" -> "CustomH3"
      [] OTHER -> "Heading4"

Heading(k) == Paragraph(format_heading(At(k).content), TitleStyle(Types(k)))

Init ==
    /\ markdown_text \in Docs
    /\ enable_mermaid \in BOOLEAN
    /\ playwright_available \in BOOLEAN
    /\ elements = parse_markdown(markdown_text)
    /\ mermaid_count = CountType(elements, "mermaid")
    /\ mermaid_rendered = 0
    /\ story = <<>>
    /\ temp_files = <<>>
    /\ i = 0
    /\ pc = "pass"
    /\ cleaned = 0
    /\ result = <<>>
    /\ files = {}
    /\ src = <<>>
    /\ outcomes = <<>>
    /\ unlinked = {}
    /\ NoImage
    /\ NoFormat
    /\ NoRender
    /\ NoPage
    /\ NoHtml
    /\ NoCli

InLoop == pc = "pass" /\ i < Len(elements)

\* A faulty variant of Emit: the cursor stays where it is.
EmitCursorStays(fs, from, to) ==
    /\ story' = story \o fs
    /\ src' = src \o [k \in 1..Len(fs) |-> from]
    /\ i' = i
    /\ UNCHANGED <<markdown_text, enable_mermaid, playwright_available, elements,
                   mermaid_count, pc, cleaned, result, unlinked>>
    /\ UNCHANGED nonPassVars

\* story.append of the flowables fs, all made from the elements at from; the
\* cursor moves to to.
Emit(fs, from, to) ==
    /\ story' = story \o fs
    /\ src' = src \o [k \in 1..Len(fs) |-> from]
    /\ i' = to
    /\ UNCHANGED <<markdown_text, enable_mermaid, playwright_available, elements,
                   mermaid_count, pc, cleaned, result, unlinked>>
    /\ UNCHANGED nonPassVars

NoRendering == UNCHANGED <<mermaid_rendered, temp_files, files, outcomes>>

\* The effects of one rendering besides the flowables.
Rendering(outcome) ==
    /\ mermaid_rendered' =
           IF CountsAsRendered(RenderingEnabled, outcome)
           THEN mermaid_rendered + 1 ELSE mermaid_rendered
    /\ temp_files' =
           IF CreatesTempFile(RenderingEnabled, outcome)
           THEN Append(temp_files, NewTempFile) ELSE temp_files
    /\ files' =
           IF CreatesTempFile(RenderingEnabled, outcome)
           THEN files \cup {NewTempFile} ELSE files
    /\ outcomes' = IF RenderingEnabled THEN Append(outcomes, outcome) ELSE outcomes

\* An exception no except clause catches leaves the function: the loop stops
\* where it is and nothing after it runs.
Propagate(outcome) ==
    /\ pc' = "raised"
    /\ Rendering(outcome)
    /\ UNCHANGED <<markdown_text, enable_mermaid, playwright_available, elements,
                   mermaid_count, story, src, i, cleaned, result, unlinked>>
    /\ UNCHANGED nonPassVars

\* With rendering disabled no outcome is drawn.
OutcomeChoices == IF RenderingEnabled THEN Outcomes ELSE {"none"}

StepH1 ==
    /\ InLoop /\ Types(i) = "h1"
    /\ Emit(<<Heading(i)>>, <<i>>, i + 1)
    /\ NoRendering

StepH2Nested ==
    /\ InLoop /\ Types(i) = "h2" /\ h2_has_nested_diagram
    /\ \E outcome \in OutcomeChoices :
          IF RenderingEnabled /\ Escapes(outcome) THEN Propagate(outcome)
          ELSE /\ Emit(<<KeepTogether(<<Heading(i), Heading(nested_h_idx)>>
                                      \o DiagramFlowables(RenderingEnabled, outcome,
                                                          At(nested_diagram_idx).content,
                                                          NewTempFile))>>,
                       <<i, nested_h_idx, nested_diagram_idx>>,
                       nested_diagram_idx + 1)
               /\ Rendering(outcome)

StepH2 ==
    /\ InLoop /\ Types(i) = "h2" /\ ~h2_has_nested_diagram
    /\ Emit(<<Heading(i)>>, <<i>>, i + 1)
    /\ NoRendering

\* A faulty variant of StepH34Diagram: the cursor moves two past the diagram.
StepH34DiagramSkipsOne ==
    /\ InLoop /\ Types(i) \in {"h3", "h4"} /\ next_is_diagram
    /\ \E outcome \in OutcomeChoices :
          IF RenderingEnabled /\ Escapes(outcome) THEN Propagate(outcome)
          ELSE /\ Emit(<<KeepTogether(<<Heading(i)>>
                                      \o DiagramFlowables(RenderingEnabled, outcome,
                                                          At(next_idx).content,
                                                          NewTempFile))>>,
                       <<i, next_idx>>,
                       next_idx + 2)
               /\ Rendering(outcome)

StepH34Diagram ==
    /\ InLoop /\ Types(i) \in {"h3", "h4"} /\ next_is_diagram
    /\ \E outcome \in OutcomeChoices :
          IF RenderingEnabled /\ Escapes(outcome) THEN Propagate(outcome)
          ELSE /\ Emit(<<KeepTogether(<<Heading(i)>>
                                      \o DiagramFlowables(RenderingEnabled, outcome,
                                                          At(next_idx).content,
                                                          NewTempFile))>>,
                       <<i, next_idx>>,
                       next_idx + 1)
               /\ Rendering(outcome)

StepH3 ==
    /\ InLoop /\ Types(i) = "h3" /\ ~next_is_diagram
    /\ Emit(<<Heading(i)>>, <<i>>, i + 1)
    /\ NoRendering

StepH4 ==
    /\ InLoop /\ Types(i) = "h4" /\ ~next_is_diagram
    /\ Emit(<<Heading(i)>>, <<i>>, i + 1)
    /\ NoRendering

StepP ==
    /\ InLoop /\ Types(i) = "p"
    /\ Emit(<<Paragraph(format_inline(At(i).content), "Normal")>>, <<i>>, i + 1)
    /\ NoRendering

StepList ==
    /\ InLoop /\ Types(i) = "list"
    /\ Emit(<<Paragraph(<<"&", "#", "8", "2", "2", "6", ";", " ">>
                        \o format_inline(At(i).content), "Normal")>>,
            <<i>>, i + 1)
    /\ NoRendering

StepNumlist ==
    /\ InLoop /\ Types(i) = "numlist"
    /\ Emit(<<Paragraph(<<" ", " ">> \o format_inline(At(i).content), "Normal")>>,
            <<i>>, i + 1)
    /\ NoRendering

StepMermaid ==
    /\ InLoop /\ Types(i) = "mermaid"
    /\ \E outcome \in OutcomeChoices :
          IF RenderingEnabled /\ Escapes(outcome) THEN Propagate(outcome)
          ELSE /\ Emit(DiagramFlowables(RenderingEnabled, outcome, At(i).content,
                                        NewTempFile),
                       <<i>>, i + 1)
               /\ Rendering(outcome)

StepCode ==
    /\ InLoop /\ Types(i) = "code"
    /\ Emit(CodeFlowables(At(i).content), <<i>>, i + 1)
    /\ NoRendering

StepTable ==
    /\ InLoop /\ Types(i) = "table"
    /\ Emit(TableFlowables(At(i).content), <<i>>, i + 1)
    /\ NoRendering

StepHr ==
    /\ InLoop /\ Types(i) = "hr"
    /\ Emit(<<Spacer(3), Paragraph(<<"<", "h", "r", "/", ">">>, "Normal"), Spacer(3)>>,
            <<i>>, i + 1)
    /\ NoRendering

StepSpace ==
    /\ InLoop /\ Types(i) = "space"
    /\ Emit(<<Spacer(2)>>, <<i>>, i + 1)
    /\ NoRendering

\* The while loop ends: the pass is over and doc.build is next.
EndPass ==
    /\ pc = "pass" /\ i >= Len(elements)
    /\ pc' = "build"
    /\ UNCHANGED <<markdown_text, enable_mermaid, playwright_available, elements,
                   mermaid_count, mermaid_rendered, story, temp_files, i, cleaned,
                   result, files, src, outcomes, unlinked>>
    /\ UNCHANGED nonPassVars

\* doc.build(story) writes the document.
Build ==
    /\ pc = "build"
    /\ pc' = "cleanup"
    /\ UNCHANGED <<markdown_text, enable_mermaid, playwright_available, elements,
                   mermaid_count, mermaid_rendered, story, temp_files, i, cleaned,
                   result, files, src, outcomes, unlinked>>
    /\ UNCHANGED nonPassVars

\* doc.build(story) raises: nothing around it catches, the function is left.
BuildRaises ==
    /\ pc = "build"
    /\ pc' = "raised"
    /\ UNCHANGED <<markdown_text, enable_mermaid, playwright_available, elements,
                   mermaid_count, mermaid_rendered, story, temp_files, i, cleaned,
                   result, files, src, outcomes, unlinked>>
    /\ UNCHANGED nonPassVars

\* One iteration of the cleanup loop: os.unlink removes the file, or raises and
\* the except clause passes.
Unlink ==
    /\ pc = "cleanup" /\ cleaned < Len(temp_files)
    /\ cleaned' = cleaned + 1
    /\ unlinked' = unlinked \cup {temp_files[cleaned + 1]}
    /\ \E removed \in BOOLEAN :
          files' = IF removed THEN files \ {temp_files[cleaned + 1]} ELSE files
    /\ UNCHANGED <<markdown_text, enable_mermaid, playwright_available, elements,
                   mermaid_count, mermaid_rendered, story, temp_files, i, pc,
                   result, src, outcomes>>
    /\ UNCHANGED nonPassVars

Return ==
    /\ pc = "cleanup" /\ cleaned = Len(temp_files)
    /\ pc' = "returned"
    /\ result' = [success |-> TRUE, mermaid_count |-> mermaid_count,
                  mermaid_rendered |-> mermaid_rendered,
                  playwright_available |-> playwright_available]
    /\ UNCHANGED <<markdown_text, enable_mermaid, playwright_available, elements,
                   mermaid_count, mermaid_rendered, story, temp_files, i, cleaned,
                   files, src, outcomes, unlinked>>
    /\ UNCHANGED nonPassVars

vars == <<passVars, imageVars, formatVars, renderVars, pageVars, ioVars>>

Next ==
    \/ StepH1 \/ StepH2Nested \/ StepH2 \/ StepH34Diagram \/ StepH3 \/ StepH4
    \/ StepP \/ StepList \/ StepNumlist \/ StepMermaid \/ StepCode \/ StepTable
    \/ StepHr \/ StepSpace
    \/ EndPass \/ Build \/ BuildRaises \/ Unlink \/ Return

Spec == Init /\ [][Next]_vars

(***************************************************************************)
(* Properties of the layout pass: the grouping of headings and diagrams    *)
(***************************************************************************)

Range(f) == {f[k] : k \in DOMAIN f}

\* The while loop has run to the end of elements.
PassOver == pc \in {"build", "cleanup", "returned", "raised"} /\ i >= Len(elements)

\* The next non-blank block after the block at k.
NextNonBlank(k) == SkipSpaces(k + 1)

DiagramFollows(k) ==
    NextNonBlank(k) < Len(elements) /\ Types(NextNonBlank(k)) = "mermaid"

\* Flowables that are a rendered diagram: one image between spacers.
IsImageRun(fs) ==
    /\ \E m \in 1..Len(fs) : fs[m].kind = "HighQualityImage"
    /\ \A m \in 1..Len(fs) : fs[m].kind \in {"HighQualityImage", "Spacer"}

\* Flowables that are the text shown in place of a diagram.
IsFallbackRun(fs) ==
    /\ \E m \in 1..Len(fs) : fs[m].kind \in {"Paragraph", "Preformatted"}
    /\ \A m \in 1..Len(fs) :
          \/ fs[m].kind \in {"Preformatted", "Spacer"}
          \/ fs[m].kind = "Paragraph" /\ fs[m].style = "Normal"

IsDiagramRun(fs) == IsImageRun(fs) \/ IsFallbackRun(fs)

\* The heading at k and the diagram after it are members of one KeepTogether,
\* the heading before the flowables of the diagram.
GroupedWithDiagram(k) ==
    \E s \in 1..Len(story) :
        LET n == Len(src[s])
            g == story[s].items
        IN  /\ story[s].kind = "KeepTogether"
            /\ src[s][n] = NextNonBlank(k)
            /\ \E m \in 1..(n - 1) : src[s][m] = k /\ g[m] = Heading(k)
            /\ Len(g) >= n
            /\ IsDiagramRun(SubSeq(g, n, Len(g)))

\* The block at k was emitted as top-level flowables of its own.
EmittedAlone(k) == \E s \in 1..Len(story) : src[s] = <<k>>

HeadingsGrouped(types) ==
    \A k \in 0..(i - 1) :
        (Types(k) \in types /\ DiagramFollows(k))
            => (GroupedWithDiagram(k) /\ ~EmittedAlone(k))

\* C1 as stated: every heading of any level (h1..h4) that the pass has
\* consumed and whose next non-blank block is a diagram is in one KeepTogether
\* with that diagram and is not a top-level primitive of its own.
C1_AnyHeadingKeptWithDiagram == HeadingsGrouped({"h1", "h2", "h3", "h4"})

\* C1 amended: every h3 or h4 heading that the pass has consumed and whose next
\* non-blank block is a diagram is in one KeepTogether with that diagram and is
\* not a top-level primitive of its own.
C1_H3H4KeptWithDiagram == HeadingsGrouped({"h3", "h4"})

\* An h4 separated from its diagram by a blank line has been grouped with it.
C1_Witness ==
    \E k \in 0..(i - 1) :
        /\ Types(k) = "h4" /\ DiagramFollows(k) /\ NextNonBlank(k) > k + 1
        /\ GroupedWithDiagram(k)

\* The step of the pass appends exactly the KeepTogether g to the story.
AppendsOnly(g) ==
    /\ Len(story') = Len(story) + 1
    /\ SubSeq(story', 1, Len(story)) = story
    /\ story'[Len(story')] = g

RuleAApplies ==
    /\ pc = "pass" /\ i < Len(elements) /\ Types(i) = "h2"
    /\ NextNonBlank(i) < Len(elements)
    /\ Types(NextNonBlank(i)) \in {"h3", "h4"}
    /\ DiagramFollows(NextNonBlank(i))

\* C2: when the cursor is at an h2, the next non-blank block is an h3 or h4 and
\* the next non-blank block after that is a diagram, the step appends exactly
\* one KeepTogether holding the h2, the h3/h4 and then the image or fallback of
\* the diagram, and the cursor moves to just after the diagram.
C2_RuleA ==
    [][RuleAApplies =>
         LET h == NextNonBlank(i)
             d == NextNonBlank(NextNonBlank(i))
             g == story'[Len(story')]
         IN  /\ AppendsOnly(g)
             /\ g.kind = "KeepTogether"
             /\ Len(g.items) >= 3
             /\ g.items[1] = Heading(i)
             /\ g.items[2] = Heading(h)
             /\ IsDiagramRun(SubSeq(g.items, 3, Len(g.items)))
             /\ i' = d + 1
      ]_vars

\* A group of three was emitted over blank lines and the cursor is just after
\* its diagram.
C2_Witness ==
    \E s \in 1..Len(story) :
        /\ story[s].kind = "KeepTogether" /\ Len(src[s]) = 3
        /\ Types(src[s][1]) = "h2"
        /\ src[s][3] > src[s][1] + 2
        /\ i = src[s][3] + 1

RuleBApplies ==
    /\ pc = "pass" /\ i < Len(elements)
    /\ ~RuleAApplies
    /\ Types(i) \in {"h3", "h4"}
    /\ DiagramFollows(i)

\* C3: when rule (a) does not apply, the cursor is at an h3 or h4 and the next
\* non-blank block is a diagram, the step appends exactly one KeepTogether
\* holding the heading and then the image or fallback of the diagram, and the
\* cursor moves to just after the diagram.
C3_RuleB ==
    [][RuleBApplies =>
         LET d == NextNonBlank(i)
             g == story'[Len(story')]
         IN  /\ AppendsOnly(g)
             /\ g.kind = "KeepTogether"
             /\ Len(g.items) >= 2
             /\ g.items[1] = Heading(i)
             /\ IsDiagramRun(SubSeq(g.items, 2, Len(g.items)))
             /\ i' = d + 1
      ]_vars

\* A group of two was emitted over a blank line and the cursor is just after
\* its diagram.
C3_Witness ==
    \E s \in 1..Len(story) :
        /\ story[s].kind = "KeepTogether" /\ Len(src[s]) = 2
        /\ Types(src[s][1]) = "h3"
        /\ src[s][2] > src[s][1] + 1
        /\ i = src[s][2] + 1

\* The lines of "## Title\n### Sub\n" and one mermaid block.
TitleSubDiagram == Flatten(<<H2_PART, H3_PART, MERMAID_PART>>)

TitleRun == Paragraph(<<"T", "i", "t", "l", "e">>, "CustomH2")

SubRun == Paragraph(<<"S", "u", "b">>, "CustomH3")

\* The pass is over on the given input and the one rendering succeeded.
RenderedAll(lines) ==
    /\ markdown_text = lines
    /\ PassOver
    /\ RenderingEnabled
    /\ outcomes = <<"ok">>

\* C4 as stated: the story is a single KeepTogether whose members are exactly
\* the heading Title, the heading Sub and the image.
C4_ExactlyThreeMembers ==
    RenderedAll(TitleSubDiagram) =>
        /\ Len(story) = 1
        /\ story[1].kind = "KeepTogether"
        /\ Len(story[1].items) = 3
        /\ story[1].items[1] = TitleRun
        /\ story[1].items[2] = SubRun
        /\ story[1].items[3].kind = "HighQualityImage"

\* C4 amended: the story is a single KeepTogether whose members are the
\* heading Title, the heading Sub, a spacer, the image and a spacer; when the
\* input ends with a line break, the spacer of the empty last line follows the
\* group as the only other top-level primitive.
C4_GroupWithSpacers ==
    /\ RenderedAll(TitleSubDiagram) =>
          story = <<KeepTogether(<<TitleRun, SubRun, Spacer(3), HighQualityImage(1),
                                   Spacer(5)>>)>>
    /\ RenderedAll(TitleSubDiagram \o BLANK_PART) =>
          story = <<KeepTogether(<<TitleRun, SubRun, Spacer(3), HighQualityImage(1),
                                   Spacer(5)>>),
                    Spacer(2)>>

\* The pass is over on the input with its final line break and the diagram
\* was rendered.
C4_Witness ==
    /\ RenderedAll(TitleSubDiagram \o BLANK_PART)
    /\ story[1].kind = "KeepTogether"

(***************************************************************************)
(* Properties of the layout pass: failing renderings and temporary files   *)
(***************************************************************************)

\* The 0-based indices of the diagram blocks.
DiagramBlocks == {k \in 0..(Len(elements) - 1) : Types(k) = "mermaid"}

\* The outcome of the rendering of the diagram block at d, once the pass has
\* consumed it: renderings are attempted in the order of the blocks.
OutcomeOf(d) == outcomes[Cardinality({k \in DiagramBlocks : k <= d})]

\* The flowables the pass made from the diagram block at d: the members of its
\* group after the headings, or its top-level flowables.
RECURSIVE TopLevelOf(_, _)
TopLevelOf(d, s) ==
    IF s > Len(story) THEN <<>>
    ELSE (IF src[s] = <<d>> THEN <<story[s]>> ELSE <<>>) \o TopLevelOf(d, s + 1)

DiagramRun(d) ==
    IF \E s \in 1..Len(story) : Len(src[s]) > 1 /\ src[s][Len(src[s])] = d
    THEN LET s == CHOOSE s \in 1..Len(story) : Len(src[s]) > 1 /\ src[s][Len(src[s])] = d
         IN  SubSeq(story[s].items, Len(src[s]), Len(story[s].items))
    ELSE TopLevelOf(d, 1)

\* The diagram source, cut to the fixed bound of 500 characters.
TruncatedSource(d) == SubSeq(At(d).content, 1, Min(500, Len(At(d).content)))

\* A preformatted flowable of the diagram at d that carries its source.
CarriesSource(d) ==
    \E m \in 1..Len(DiagramRun(d)) :
        /\ DiagramRun(d)[m].kind = "Preformatted"
        /\ DiagramRun(d)[m].text \in {At(d).content, TruncatedSource(d)}

\* Every rendering so far failed, by returning failure or by raising.
RendererAlwaysFails ==
    RenderingEnabled /\ \A n \in 1..Len(outcomes) : outcomes[n] \in {"false", "raise"}

\* C7 as stated: with a renderer that fails on every call, by returning
\* failure or by raising, the pass runs to the end, mermaid_rendered is 0,
\* mermaid_count is the number of diagram blocks, and every diagram block
\* yields a text fallback that carries its source.
C7_FailingRendererFallsBackToSource ==
    (RendererAlwaysFails /\ pc # "pass") =>
        /\ i >= Len(elements)
        /\ mermaid_rendered = 0
        /\ mermaid_count = Cardinality(DiagramBlocks)
        /\ \A d \in DiagramBlocks : CarriesSource(d)

\* Every block that makes flowables has made them: only the blank lines inside
\* a group, and tables without a row, leave nothing in the story.
AllBlocksEmitted ==
    \A k \in 0..(Len(elements) - 1) :
        Types(k) \notin {"space", "table"} => \E s \in 1..Len(story) : k \in Range(src[s])

NotRendered(d) == ~RenderingEnabled \/ OutcomeOf(d) \in {"false", "raise"}

\* C9 as stated: in each of the three cases the fallback of the diagram is an
\* explanatory note followed by a preformatted flowable holding the source cut
\* to 500 characters.
C9_FallbackIsNoteThenSource ==
    \A d \in DiagramBlocks :
        (d < i /\ NotRendered(d)) =>
            /\ Len(DiagramRun(d)) = 2
            /\ DiagramRun(d)[1].kind = "Paragraph"
            /\ DiagramRun(d)[2] = Preformatted(TruncatedSource(d), "CustomCode")

\* C10 as stated: when the function is left, by its return or by an
\* exception, os.unlink has been attempted on every temporary file created.
C10_TempFilesReleasedOnEveryExit ==
    pc \in {"returned", "raised"} => \A f \in Range(temp_files) : f \in unlinked

(***************************************************************************)
(* Properties of the summary                                               *)
(***************************************************************************)

\* The number of image flowables among fs, the members of groups included.
RECURSIVE ImagesIn(_)
ImagesIn(fs) ==
    IF fs = <<>> THEN 0
    ELSE (CASE Head(fs).kind = "HighQualityImage" -> 1
            [] Head(fs).kind = "KeepTogether" -> ImagesIn(Head(fs).items)
            [] OTHER -> 0)
         + ImagesIn(Tail(fs))

NoConversion ==
    /\ markdown_text = <<>>
    /\ enable_mermaid = FALSE
    /\ playwright_available = FALSE
    /\ elements = <<>>
    /\ mermaid_count = 0
    /\ mermaid_rendered = 0
    /\ story = <<>>
    /\ temp_files = <<>>
    /\ i = 0
    /\ pc = "idle"
    /\ cleaned = 0
    /\ result = <<>>
    /\ files = {}
    /\ src = <<>>
    /\ outcomes = <<>>
    /\ unlinked = {}

\* HighQualityImage.__init__: the size of the image file, in pixels.
InitImage ==
    /\ NoConversion
    /\ NoFormat
    /\ NoRender
    /\ NoPage
    /\ NoHtml
    /\ NoCli
    /\ img_width_px \in 1..MaxPx
    /\ img_height_px \in 1..MaxPx
    /\ display = <<>>
    /\ wrap_args = <<>>
    /\ wrap_ret = <<>>

wrap(availWidth, availHeight) ==
    /\ wrap_args' = <<availWidth, availHeight>>
    /\ IF NeedsMoreSpace(availHeight)
       THEN /\ wrap_ret' = <<Frac(availWidth * 2, 1), Frac(availHeight * 2, 1)>>
            /\ UNCHANGED display
       ELSE /\ display' = ConstrainedSize(AspectRatio(img_width_px, img_height_px),
                                          availWidth, availHeight)
            /\ wrap_ret' = display'
    /\ UNCHANGED <<img_width_px, img_height_px>>
    /\ UNCHANGED <<passVars, formatVars, renderVars, ioVars>>

Wrap ==
    /\ \E availWidth \in AvailWidths, availHeight \in AvailHeights :
          wrap(availWidth, availHeight)
    /\ UNCHANGED pageVars

NextImage == Wrap

SpecImage == InitImage /\ [][NextImage]_vars

(***************************************************************************)
(* Properties of the sizing                                                *)
(***************************************************************************)

\* The last call of wrap, with its arguments at or above the floor of 8 cm.
SizedAboveFloor == wrap_args # <<>> /\ wrap_args[1] > 0 /\ wrap_args[2] >= 8 * cm

\* C5: for a positive aspect ratio and available width and an available height
\* at or above the floor of 8 cm, wrap returns (width, height) with
\* height = width * aspect_ratio, width <= 0.90 * availWidth,
\* height <= 0.75 * availHeight and one of the two bounds met with equality:
\* the width bound unless the height of that candidate exceeds
\* 0.75 * availHeight, and then the height bound.
C5_FittedSize ==
    SizedAboveFloor =>
        LET aspect_ratio == Frac(img_height_px, img_width_px)
            width == wrap_ret[1]
            height == wrap_ret[2]
            width_bound == Frac(9 * wrap_args[1], 10)
            height_bound == Frac(3 * wrap_args[2], 4)
            first_height == FMul(width_bound, aspect_ratio)
        IN  /\ FEq(height, FMul(width, aspect_ratio))
            /\ FLe(width, width_bound)
            /\ FLe(height, height_bound)
            /\ FEq(width, width_bound) \/ FEq(height, height_bound)
            /\ FLe(first_height, height_bound) => FEq(width, width_bound)
            /\ FGt(first_height, height_bound) => FEq(height, height_bound)
            /\ display = wrap_ret

\* A tall image was sized by its height: the height bound is met and the width
\* lies strictly below its bound.
C5_Witness ==
    /\ SizedAboveFloor
    /\ FEq(wrap_ret[2], Frac(3 * wrap_args[2], 4))
    /\ ~FEq(wrap_ret[1], Frac(9 * wrap_args[1], 10))

\* C6: a call of wrap with an available height strictly below the floor of
\* 8 cm returns twice the available width and height, whatever the aspect ratio
\* and the available width, and sets no display size.
C6_PageBreakBelowFloor ==
    [][(wrap_args' # <<>> /\ wrap_args'[2] < 8 * cm) =>
          /\ FEq(wrap_ret'[1], Frac(2 * wrap_args'[1], 1))
          /\ FEq(wrap_ret'[2], Frac(2 * wrap_args'[2], 1))
          /\ display' = display
      ]_vars

\* wrap was called just below the floor on an image never sized before: it
\* returned the oversize pair and the image still has no display size.
C6_Witness ==
    /\ wrap_args # <<>> /\ wrap_args[2] = 8 * cm - 1 /\ wrap_args[1] > 0
    /\ FEq(wrap_ret[2], Frac(2 * wrap_args[2], 1))
    /\ display = <<>>

(***************************************************************************)
(* The table handler on tables of its own                                  *)
(***************************************************************************)

\* The lines a table is made of: a header, separators of three and of two
\* signs, data rows, and a data row with a cell that holds three dashes.
ROW_AB == <<"|", " ", "a", " ", "|", " ", "b", " ", "|">>

ROW_SEP == <<"|", "-", "-", "-", "|", "-", "-", "-", "|">>

ROW_12 == <<"|", " ", "1", " ", "|", " ", "2", " ", "|">>

ROW_SHORT_SEP == <<"|", "-", "-", "|", "-", "-", "|">>

ROW_DASHED_CELL == <<"|", " ", "x", "-", "-", "-", "y", " ", "|", " ", "2", " ", "|">>

ROW_EQ_SEP == <<"|", "=", "=", "=", "|", "=", "=", "=", "|">>

\* A row whose second cell is empty.
ROW_EMPTY_CELL == <<"|", " ", "a", " ", "|", " ", " ", "|", " ", "c", " ", "|">>

TableRows ==
    {ROW_AB, ROW_SEP, ROW_12, ROW_SHORT_SEP, ROW_DASHED_CELL, ROW_EQ_SEP, ROW_EMPTY_CELL}

\* The most lines of a table.
MaxTableRows == 3

\* Documents that are one table.
TableDocs == SeqsUpTo(TableRows, MaxTableRows)

\* convert_markdown_to_pdf up to the loop, on a document of docs, with the
\* rendering of diagrams switched off.
InitBlocks(docs) ==
    /\ markdown_text \in docs
    /\ enable_mermaid = FALSE
    /\ playwright_available = FALSE
    /\ elements = parse_markdown(markdown_text)
    /\ mermaid_count = CountType(elements, "mermaid")
    /\ mermaid_rendered = 0
    /\ story = <<>>
    /\ temp_files = <<>>
    /\ i = 0
    /\ pc = "pass"
    /\ cleaned = 0
    /\ result = <<>>
    /\ files = {}
    /\ src = <<>>
    /\ outcomes = <<>>
    /\ unlinked = {}
    /\ NoImage
    /\ NoFormat
    /\ NoRender
    /\ NoPage
    /\ NoHtml
    /\ NoCli

InitTable == InitBlocks(TableDocs)

NextTable == StepTable \/ EndPass

SpecTable == InitTable /\ [][NextTable]_vars

\* A line that holds only separator punctuation: pipes, blanks, colons and
\* runs of dashes or equals signs, with at least one dash or equals sign.
SeparatorOnly(line) ==
    /\ \A k \in 1..Len(line) : line[k] \in {"|", "-", "=", ":", " "}
    /\ \E k \in 1..Len(line) : line[k] \in {"-", "="}

\* The grid of a table whose separator lines, and no other lines, are
\* discarded: the other lines in source order, each as its row of cells.
RECURSIVE GridWithoutSeparators(_)
GridWithoutSeparators(lines) ==
    IF lines = <<>> THEN <<>>
    ELSE (IF SeparatorOnly(Head(lines)) THEN <<>>
          ELSE <<ProcessCells(StripNonEmpty(split(Head(lines), "|")))>>)
         \o GridWithoutSeparators(Tail(lines))

\* The pass is over on a document that is one table.
TableDone == pc = "build" /\ Len(elements) = 1 /\ Types(0) = "table"

\* C12 as stated: the rows of the emitted grid are the lines of the table that
\* do not consist of separator punctuation only, in source order, the first of
\* them being the header row, and a line is discarded exactly when it consists
\* of separator punctuation only; the table of the lines | a | b |, |---|---|
\* and | 1 | 2 | has the header [a, b] and the one data row [1, 2].
C12_OnlySeparatorRowsDiscarded ==
    TableDone =>
        /\ story = IF GridWithoutSeparators(At(0).content) = <<>> THEN <<>>
                   ELSE <<Table(GridWithoutSeparators(At(0).content))>>
        /\ markdown_text = <<ROW_AB, ROW_SEP, ROW_12>> =>
              story = <<Table(<< <<Paragraph(<<"a">>, "Normal"), Paragraph(<<"b">>, "Normal")>>,
                                 <<Paragraph(<<"1">>, "Normal"), Paragraph(<<"2">>, "Normal")>> >>)>>

(***************************************************************************)
(* The code handler on code blocks of their own                            *)
(***************************************************************************)

\* A line of n characters.
LineOf(n) == [k \in 1..n |-> "x"]

\* The most lines of the small code blocks, and the longest line.
MaxSmallLines == 3

MaxLineLen == 200

\* The numbers of lines of a code block: the small ones, those around one
\* and two chunks, and two chunks and a half.
CodeLineCounts ==
    (0..MaxSmallLines)
    \cup {MAX_LINES - 1, MAX_LINES, MAX_LINES + 1, 2 * MAX_LINES, 2 * MAX_LINES + 1,
          2 * MAX_LINES + MAX_LINES \div 2}

\* The long lines of a code block, as <<length, how many>>: none, one line
\* around the column of the wrap and around twice that column, and so many
\* lines just over the column that half a chunk is added.
LongLines ==
    {<<0, 0>>}
    \cup {<<len, 1>> : len \in {WRAP_COLUMN, WRAP_COLUMN + 1, 2 * WRAP_COLUMN - 2,
                                2 * WRAP_COLUMN - 1, MaxLineLen}}
    \cup {<<WRAP_COLUMN + 1, MAX_LINES \div 2 + 1>>}

\* A fenced block of n lines, the first of them long.
CodeDoc(n, long) ==
    <<FENCE>>
    \o [k \in 1..n |-> IF k <= long[2] THEN LineOf(long[1]) ELSE LineOf(1)]
    \o <<FENCE>>

CodeDocs == {CodeDoc(n, long) : n \in CodeLineCounts, long \in LongLines}

InitCode == InitBlocks(CodeDocs)

NextCode == StepCode \/ EndPass

SpecCode == InitCode /\ [][NextCode]_vars

\* The pass is over on a document that is one code block.
CodeDone == pc = "build" /\ Len(elements) = 1 /\ Types(0) = "code"

\* The lines of the code block.
BlockLines == split(At(0).content, "\n")

\* The lines of the preformatted flowables of the story, in order.
RECURSIVE ChunkLines(_)
ChunkLines(fs) ==
    IF fs = <<>> THEN <<>>
    ELSE (IF Head(fs).kind = "Preformatted" THEN split(Head(fs).text, "\n") ELSE <<>>)
         \o ChunkLines(Tail(fs))

NumPreformatted == Cardinality({s \in 1..Len(story) : story[s].kind = "Preformatted"})

\* Preformatted flowables of at most 100 lines each, one spacer between each
\* two of them and none after the last.
ChunkedBySpacers ==
    /\ Len(story) % 2 = 1
    /\ \A s \in 1..Len(story) :
          IF s % 2 = 1
          THEN /\ story[s].kind = "Preformatted"
               /\ Len(split(story[s].text, "\n")) <= 100
          ELSE story[s] = Spacer(1)

\* The lines with every line longer than 95 characters replaced by its first
\* 95 characters and a line of two blanks and the rest.
RECURSIVE HardWrapped(_)
HardWrapped(lines) ==
    IF lines = <<>> THEN <<>>
    ELSE IF Len(lines) = 1
    THEN (IF Len(lines[1]) > 95
          THEN <<SubSeq(lines[1], 1, 95),
                 <<" ", " ">> \o SubSeq(lines[1], 96, Len(lines[1]))>>
          ELSE <<lines[1]>>)
    ELSE LET half == Len(lines) \div 2
         IN  HardWrapped(SubSeq(lines, 1, half))
             \o HardWrapped(SubSeq(lines, half + 1, Len(lines)))

\* C13 as stated: the preformatted flowables of a code block hold at most 100
\* lines each, exactly one spacer separates each two of them and none follows
\* the last, their lines in order are the lines of the block, and a block of
\* 250 lines yields exactly 3 of them.
C13_ChunksAreBlockLines ==
    CodeDone =>
        /\ ChunkedBySpacers
        /\ ChunkLines(story) = BlockLines
        /\ Len(BlockLines) = 250 => NumPreformatted = 3

\* C13 amended: the preformatted flowables of a code block hold at most 100
\* lines each, exactly one spacer separates each two of them and none follows
\* the last, their lines in order are the lines of the block after the wrap
\* of the lines longer than 95 characters, and a block of 250 lines none of
\* which is longer than 95 characters yields exactly 3 of them.
C13_ChunksAreWrappedLines ==
    CodeDone =>
        /\ ChunkedBySpacers
        /\ ChunkLines(story) = HardWrapped(BlockLines)
        /\ (Len(BlockLines) = 250 /\ \A k \in 1..250 : Len(BlockLines[k]) <= 95)
              => NumPreformatted = 3

\* A block of 250 short lines was emitted as three chunks and two spacers.
C13_Witness ==
    /\ CodeDone
    /\ Len(BlockLines) = 250 /\ \A k \in 1..250 : Len(BlockLines[k]) <= 95
    /\ Len(story) = 5

\* C20 as stated: whatever the length of the lines of a code block, no line of
\* an emitted preformatted flowable is longer than 95 characters, a longer
\* source line having been wrapped into a first line and continuation lines.
C20_NoLineOverTheColumn ==
    CodeDone =>
        \A s \in 1..Len(story) :
            story[s].kind = "Preformatted" =>
                \A k \in 1..Len(split(story[s].text, "\n")) :
                    Len(split(story[s].text, "\n")[k]) <= 95

(***************************************************************************)
(* The inline formatter run again on its own output                        *)
(***************************************************************************)

\* The pieces the leaf texts are made of: a letter, the characters the
\* formatter escapes, the marks of bold and of inline code, a link and an
\* emoji.
TextTokens ==
    { <<"a">>, <<"&">>, <<"<">>, <<">">>, <<"*", "*">>, <<BACKTICK>>,
      <<"[", "a", "]", "(", "u", ")">>, <<"U+1F600">> }

\* The most pieces of a leaf text, and the most runs of the formatter.
MaxTokens == 3

MaxPasses == 2

Texts == {Flatten(ts) : ts \in SeqsUpTo(TextTokens, MaxTokens)}

InitFormat ==
    /\ NoConversion
    /\ NoImage
    /\ NoRender
    /\ NoPage
    /\ NoHtml
    /\ NoCli
    /\ text \in Texts
    /\ passes = 0

\* The stages of the paragraph handler run on the text.
FormatInline ==
    /\ passes < MaxPasses
    /\ text' = format_inline(text)
    /\ passes' = passes + 1
    /\ UNCHANGED <<passVars, imageVars, renderVars, pageVars, ioVars>>

NextFormat == FormatInline

SpecFormat == InitFormat /\ [][NextFormat]_vars

\* C14 as stated: once the formatter has run on a text, running it again on
\* what it produced changes nothing.
C14_FormatterIdempotent == [][passes >= 1 => text' = text]_vars

(***************************************************************************)
(* The emoji strip and the simple symbols                                   *)
(***************************************************************************)

\* is_simple_symbol of emoji_handler: the arrows, the technical symbols, the
\* check marks and boxes, and the shapes that fonts render as they are.
is_simple_symbol(char) ==
    LET codepoint == ord(char)
    IN  \/ codepoint \in 8592..8597          \* 0x2190-0x2195
        \/ codepoint \in 8656..8661          \* 0x21D0-0x21D5
        \/ codepoint \in {10548, 10549}      \* 0x2934, 0x2935
        \/ codepoint \in 11013..11015        \* 0x2B05-0x2B07
        \/ codepoint \in {215, 247, 8722, 8800, 8804, 8805, 8734}
        \/ codepoint \in {10003, 10004, 10007, 10008, 9744, 9745, 9746}
        \/ codepoint \in {9733, 9734, 9632, 9633, 9650, 9651, 9660, 9661,
                          9670, 9671}

\* The characters of the leaf texts: a letter, three simple symbols (an arrow
\* outside the ranges of is_emoji, a check mark among the dingbats, a star
\* among the miscellaneous symbols) and four characters that are not simple
\* symbols (a watch, a variation selector, a face, a rocket).
SymbolChars ==
    {"a", "U+2192", "U+2713", "U+2605", "U+231A", "U+FE0F", "U+1F600",
     "U+1F680"}

\* The most characters of a leaf text.
MaxSymbols == 3

SymbolTexts == SeqsUpTo(SymbolChars, MaxSymbols)

InitEmoji ==
    /\ NoConversion
    /\ NoImage
    /\ NoRender
    /\ NoPage
    /\ NoHtml
    /\ NoCli
    /\ text \in SymbolTexts
    /\ passes = 0

\* The first stage of every handler of leaf text: content =
\* remove_emoji(content).
StripEmoji ==
    /\ passes = 0
    /\ text' = remove_emoji(text)
    /\ passes' = 1
    /\ UNCHANGED <<passVars, imageVars, renderVars, pageVars, ioVars>>

NextEmoji == StripEmoji

SpecEmoji == InitEmoji /\ [][NextEmoji]_vars

\* The simple symbols of a text, in order.
SimpleSymbolsOf(s) == SelectSeq(s, is_simple_symbol)

\* C15 as stated: the emoji strip of the conversion removes no simple symbol,
\* and what it removes is a character of the ranges of is_emoji that is not a
\* simple symbol: the text it returns is the text without those characters.
C15_SimpleSymbolsSurvive ==
    [][/\ SimpleSymbolsOf(text') = SimpleSymbolsOf(text)
       /\ LET Kept(c) == is_simple_symbol(c) \/ ~is_emoji(ord(c))
          IN  text' = SelectSeq(text, Kept)]_vars

(***************************************************************************)
(* parse_markdown on fences, closed and left open                           *)
(***************************************************************************)

\* The lines of the documents: a bare fence, a fence tagged mermaid (with and
\* without blanks around the tag), a fence with another tag, a line of text,
\* an empty line and two table lines.
FenceLines ==
    { FENCE, FENCE \o MERMAID, FENCE \o <<" ">> \o MERMAID \o <<" ">>,
      FENCE \o <<"p", "y">>, <<"x">>, <<>>,
      <<"a", "|", "b">>, <<"c", "|", "d">> }

\* The most lines of a document.
MaxFenceLines == 4

FenceDocs == SeqsUpTo(FenceLines, MaxFenceLines)

InitParse ==
    /\ markdown_text \in FenceDocs
    /\ enable_mermaid = FALSE
    /\ playwright_available = FALSE
    /\ elements = <<>>
    /\ mermaid_count = 0
    /\ mermaid_rendered = 0
    /\ story = <<>>
    /\ temp_files = <<>>
    /\ i = 0
    /\ pc = "parse"
    /\ cleaned = 0
    /\ result = <<>>
    /\ files = {}
    /\ src = <<>>
    /\ outcomes = <<>>
    /\ unlinked = {}
    /\ NoImage
    /\ NoFormat
    /\ NoRender
    /\ NoPage
    /\ NoHtml
    /\ NoCli

\* elements = parse_markdown(markdown_text)
Parse ==
    /\ pc = "parse"
    /\ elements' = parse_markdown(markdown_text)
    /\ pc' = "parsed"
    /\ UNCHANGED <<markdown_text, enable_mermaid, playwright_available, mermaid_count,
                   mermaid_rendered, story, temp_files, i, cleaned, result, files,
                   src, outcomes, unlinked>>
    /\ UNCHANGED nonPassVars

NextParse == Parse

SpecParse == InitParse /\ [][NextParse]_vars

\* The positions of the fence lines of a document.
FenceAt(lines) == {k \in 1..Len(lines) : startswith(strip(lines[k]), FENCE)}

\* The j-th fence line of a document.
NthFence(lines, j) ==
    CHOOSE k \in FenceAt(lines) :
        Cardinality({m \in FenceAt(lines) : m < k}) = j - 1

\* The blocks of a document whose fences are balanced by closing at the end of
\* input the one left open: every odd fence opens a block that runs to the
\* next fence, or to the end of the input, and is a diagram block exactly when
\* the tag of its opening fence is mermaid.
BalancedBlocks(lines) ==
    LET n == Cardinality(FenceAt(lines))
        Block(b) ==
            LET open == NthFence(lines, 2 * b - 1)
                close == IF 2 * b <= n THEN NthFence(lines, 2 * b) ELSE Len(lines) + 1
                tag == strip(From(strip(lines[open]), 3))
            IN  Element(IF tag = MERMAID THEN "mermaid" ELSE "code",
                        join(<<"\n">>, SubSeq(lines, open + 1, close - 1)))
    IN  [b \in 1..((n + 1) \div 2) |-> Block(b)]

IsFenced(e) == e.type \in {"code", "mermaid"}

\* C16 as stated: the code and diagram blocks that parse_markdown returns are
\* the blocks of the document with a fence left open closed at the end of the
\* input, its lines emitted as one block and not lost, and a block is a
\* diagram block exactly when its fence is tagged mermaid.
C16_OpenFenceClosedAtEnd ==
    pc = "parsed" => SelectSeq(elements, IsFenced) = BalancedBlocks(markdown_text)

(***************************************************************************)
(* render_mermaid_to_png                                                   *)
(***************************************************************************)

\* The calls of the function after the template is built, in order: the
\* browser session up to the serialized SVG, the writing of the output (as SVG
\* text when output_path ends with .svg, as a screenshot of the canvas
\* otherwise), browser.close(), and the exit of the with statement on
\* return True.
SessionSteps(path) ==
    <<"sync_playwright", "launch", "new_page", "set_content", "wait_for_selector",
      "wait_for_timeout", "evaluate">>
    \o (IF path = ".svg" THEN <<"open", "write">>
        ELSE <<"evaluate_canvas", "wait_for_canvas", "query_selector", "screenshot">>)
    \o <<"close", "exit">>

\* The steps that complete the output file.
WritesOutput(step) == step \in {"write", "screenshot"}

InTryAfterLaunch(step) == step \notin {"sync_playwright", "launch"}

\* The steps inside try ... except Exception: the with statement and all of
\* its body.
InTry(step) == TRUE

\* The diagram sources: a flowchart, and text that is no diagram.
DiagramSources == { <<"A", "-", ">", "B">>, <<"x", "=", "1">> }

InitRender ==
    /\ NoConversion
    /\ NoImage
    /\ NoFormat
    /\ NoPage
    /\ NoHtml
    /\ NoCli
    /\ PLAYWRIGHT_AVAILABLE \in BOOLEAN
    /\ mermaid_code \in DiagramSources
    /\ output_path \in {".png", ".svg"}
    /\ render_pc = "check"
    /\ render_step = 0
    /\ failed_at = "none"
    /\ output_written = FALSE
    /\ render_ret = <<>>

\* if not PLAYWRIGHT_AVAILABLE: return False; then the template is built, of
\* strings only.
CheckAvailable ==
    /\ render_pc = "check"
    /\ IF PLAYWRIGHT_AVAILABLE
       THEN /\ render_pc' = "session"
            /\ render_step' = 1
            /\ UNCHANGED render_ret
       ELSE /\ render_pc' = "returned"
            /\ render_ret' = <<FALSE>>
            /\ UNCHANGED render_step
    /\ UNCHANGED <<PLAYWRIGHT_AVAILABLE, mermaid_code, output_path, failed_at,
                   output_written>>
    /\ UNCHANGED <<passVars, imageVars, formatVars, pageVars, ioVars>>

\* One call of the session returns; after the last one the function has
\* returned True.
SessionStepReturns ==
    /\ render_pc = "session"
    /\ output_written' =
           (output_written \/ WritesOutput(SessionSteps(output_path)[render_step]))
    /\ IF render_step = Len(SessionSteps(output_path))
       THEN /\ render_pc' = "returned"
            /\ render_ret' = <<TRUE>>
            /\ render_step' = 0
       ELSE /\ render_step' = render_step + 1
            /\ UNCHANGED <<render_pc, render_ret>>
    /\ UNCHANGED <<PLAYWRIGHT_AVAILABLE, mermaid_code, output_path, failed_at>>
    /\ UNCHANGED <<passVars, imageVars, formatVars, pageVars, ioVars>>

\* One call of the session raises an Exception: a malformed source that never
\* yields an SVG, a browser that does not start, a canvas that is not found, a
\* file that cannot be written.
SessionStepRaises ==
    /\ render_pc = "session"
    /\ failed_at' = SessionSteps(output_path)[render_step]
    /\ render_pc' = IF InTry(SessionSteps(output_path)[render_step])
                    THEN "except" ELSE "raised"
    /\ render_step' = 0
    /\ UNCHANGED <<PLAYWRIGHT_AVAILABLE, mermaid_code, output_path, output_written,
                   render_ret>>
    /\ UNCHANGED <<passVars, imageVars, formatVars, pageVars, ioVars>>

\* except Exception as e: print(...); return False
Except ==
    /\ render_pc = "except"
    /\ render_pc' = "returned"
    /\ render_ret' = <<FALSE>>
    /\ UNCHANGED <<PLAYWRIGHT_AVAILABLE, mermaid_code, output_path, render_step,
                   failed_at, output_written>>
    /\ UNCHANGED <<passVars, imageVars, formatVars, pageVars, ioVars>>

NextRender == CheckAvailable \/ SessionStepReturns \/ SessionStepRaises \/ Except

SpecRender == InitRender /\ [][NextRender]_vars

\* C17: no exception leaves render_mermaid_to_png; whatever the source, once
\* a step of the browser session has failed, or when Playwright is missing,
\* the function returns False; and it returns True only after the output
\* image has been written.
C17_RendererNeverRaises ==
    /\ render_pc # "raised"
    /\ render_pc = "returned" =>
          /\ (failed_at # "none" \/ ~PLAYWRIGHT_AVAILABLE) => render_ret = <<FALSE>>
          /\ render_ret = <<TRUE>> => output_written

\* The source that is no diagram never yielded an SVG, and the function
\* returned False.
C17_Witness ==
    /\ render_pc = "returned"
    /\ mermaid_code = <<"x", "=", "1">>
    /\ failed_at = "wait_for_selector"
    /\ render_ret = <<FALSE>>

(***************************************************************************)
(* The formatter stages on headings, paragraphs, list items and cells      *)
(***************************************************************************)

\* What a line holds before its leaf text: the marks of the four headings,
\* nothing (a paragraph), the marks of the two lists, and the bar of a table
\* row, whose cell is the leaf text.
LeafMarks ==
    { <<"#", " ">>, <<"#", "#", " ">>, <<"#", "#", "#", " ">>,
      <<"#", "#", "#", "#", " ">>, <<>>, <<"-", " ">>, <<"1", ".", " ">>,
      <<"|", " ">> }

\* The most pieces (of TextTokens) of a leaf text.
MaxLeafTokens == 2

LeafTexts == {Flatten(ts) : ts \in SeqsUpTo(TextTokens, MaxLeafTokens)}

\* The documents of one line: a mark and a leaf text, closed by a bar when the
\* line is a table row.
LeafDocs ==
    { << m \o t \o (IF m = <<"|", " ">> THEN <<" ", "|">> ELSE <<>>) >> :
          m \in LeafMarks, t \in LeafTexts }

InitLeaf == InitBlocks(LeafDocs)

NextLeaf ==
    \/ StepH1 \/ StepH2 \/ StepH3 \/ StepH4
    \/ StepP \/ StepList \/ StepNumlist \/ StepTable
    \/ EndPass

SpecLeaf == InitLeaf /\ [][NextLeaf]_vars

\* The four stages in their order: emoji strip, hyperlink strip, escape of
\* & < >, then bold and inline code.
FourStages(raw) == apply_markdown(escape_xml(remove_hyperlinks(remove_emoji(raw))))

\* What the handler of a list item puts before the formatted text.
LeafPrefix(type) ==
    CASE type = "list" -> <<"&", "#", "8", "2", "2", "6", ";", " ">>
      [] type = "numlist" -> <<" ", " ">>
      [] OTHER -> <<>>

\* The pass is over on a document that is one element of one of the types.
LeafDone(types) == pc = "build" /\ Len(elements) = 1 /\ Types(0) \in types

\* C18 as stated: the text of the paragraph flowable made from a heading of
\* any level, a paragraph, a list item or an ordered-list item is its leaf
\* text passed through the four stages in order, so that every & < > of the
\* input is escaped, and escaped before the tags of bold and code are put in.
C18_LeafTextThroughFourStages ==
    LeafDone({"h1", "h2", "h3", "h4", "p", "list", "numlist"}) =>
        /\ Len(story) = 1
        /\ story[1].kind = "Paragraph"
        /\ story[1].text = LeafPrefix(Types(0)) \o FourStages(At(0).content)

\* C19 as stated: the text of every cell of the grid is the cell of the table
\* line passed through the same four stages as other leaf text.
C19_CellsThroughInlineFormatter ==
    LeafDone({"table"}) =>
        LET cells == StripNonEmpty(split(At(0).content[1], "|"))
        IN  /\ Len(story) = 1
            /\ story[1].kind = "Table"
            /\ Len(story[1].items) = 1
            /\ Len(story[1].items[1]) = Len(cells)
            /\ \A c \in 1..Len(cells) :
                  story[1].items[1][c].text = FourStages(cells[c])

(***************************************************************************)
(* The layout pass as a forward pass                                        *)
(***************************************************************************)

\* A statement of the function is left to run: the loop, doc.build or the
\* cleanup. In exactly these states a step of Next is possible.
Running == pc \in {"pass", "build", "cleanup"}

\* The statements of convert_markdown_to_pdf run one after the other: a step
\* that can be taken is taken. This is weak fairness of Next, with Running
\* written for ENABLED <<Next>>_vars.
SpecLive == Spec /\ ([]<>(~Running) \/ []<><<Next>>_vars)

\* The indices the look-ahead of one iteration computes: next_idx, and
\* check_idx when the element is an h2 followed by an h3 or h4.
LookAheadInRange ==
    InLoop =>
        /\ next_idx <= Len(elements)
        /\ (Types(i) = "h2" /\ next_is_h3_or_h4) => nested_diagram_idx <= Len(elements)

\* The cursor after an iteration: one further, or one past a diagram that
\* lies after it.
CursorAdvances ==
    /\ i' > i
    /\ \/ i' = i + 1
       \/ /\ i' - 1 < Len(elements)
          /\ Types(i' - 1) = "mermaid"

\* C21: the pass is one forward pass that terminates: every iteration of the
\* loop moves the cursor forward, by one or to one past the diagram of the
\* group, the cursor never moves back, the indices of the look-ahead stay
\* within the length of the sequence, and the loop is left in the end.
C21_ForwardPassTerminates ==
    /\ [][(pc = "pass" /\ pc' = "pass") => CursorAdvances]_vars
    /\ [][i' >= i]_vars
    /\ []LookAheadInRange
    /\ <>(pc # "pass")

\* The pass is over, and one of its iterations moved the cursor over a group
\* of three with blank lines inside.
C21_Witness ==
    /\ pc = "build"
    /\ i = Len(elements)
    /\ \E s \in 1..Len(story) :
          Len(src[s]) = 3 /\ src[s][3] > src[s][1] + 2

(***************************************************************************)
(* The groups of the story                                                  *)
(***************************************************************************)

\* The group at s of the story is made of one heading chain and one diagram:
\* an h3 or h4, before it at most an h2, after it the diagram and nothing
\* else, only blank lines lying between them in the input; its members are
\* the headings and then the flowables of that one diagram, at most one image
\* among them.
WellFormedGroup(s) ==
    LET n == Len(src[s])
        g == story[s].items
    IN  /\ n \in {2, 3}
        /\ \A m \in 1..(n - 1) : src[s][m] < src[s][m + 1]
        /\ Types(src[s][n]) = "mermaid"
        /\ Types(src[s][n - 1]) \in {"h3", "h4"}
        /\ n = 3 => Types(src[s][1]) = "h2"
        /\ \A k \in src[s][1]..src[s][n] : k \notin Range(src[s]) => Types(k) = "space"
        /\ Len(g) >= n
        /\ \A m \in 1..(n - 1) : g[m] = Heading(src[s][m])
        /\ IsDiagramRun(SubSeq(g, n, Len(g)))
        /\ ImagesIn(SubSeq(g, n, Len(g))) <= 1
        /\ \A m \in n..Len(g) : g[m].kind # "KeepTogether"

\* C22: every KeepTogether of the story holds exactly one diagram, after all
\* the headings of the group and with nothing after it, and one heading chain
\* at most (an h3 or h4, before it at most one h2): never two diagrams, never
\* more than two headings, never another block.
C22_GroupsAreOneChainOneDiagram ==
    \A s \in 1..Len(story) : story[s].kind = "KeepTogether" => WellFormedGroup(s)

\* A group of an h2, an h3 or h4 and a diagram whose image failed to load: the
\* two headings, the spacer and the note.
C22_Witness ==
    \E s \in 1..Len(story) :
        /\ story[s].kind = "KeepTogether"
        /\ Len(src[s]) = 3
        /\ Len(story[s].items) = 4
        /\ story[s].items[3].kind = "Spacer"
        /\ story[s].items[4].kind = "Paragraph"

(***************************************************************************)
(* The placing of one image on the pages of the document                   *)
(***************************************************************************)

\* reportlab.lib.pagesizes, in the length unit of the model (a tenth of a
\* millimetre): A4 and A3 in millimetres, LETTER 8.5 by 11 inches.
mm == cm \div 10

A4 == <<210 * mm, 297 * mm>>

A3 == <<297 * mm, 420 * mm>>

LETTER == <<(85 * 254) \div 10, 11 * 254>>

landscape(pagesize) ==
    IF pagesize[1] < pagesize[2] THEN <<pagesize[2], pagesize[1]>> ELSE pagesize

portrait(pagesize) ==
    IF pagesize[1] >= pagesize[2] THEN <<pagesize[2], pagesize[1]>> ELSE pagesize

\* get_page_size(size, orientation): an unknown size is A4, an orientation
\* other than landscape is portrait.
get_page_size(size, orient) ==
    LET size_map == CASE size = "a4" -> A4
                      [] size = "a3" -> A3
                      [] size = "letter" -> LETTER
                      [] OTHER -> A4
    IN  IF orient = "landscape" THEN landscape(size_map) ELSE portrait(size_map)

\* rightMargin, leftMargin, topMargin, bottomMargin of the document
DocMargin == 2 * cm

\* The padding of 6 points on each side of the frame of the document.
FramePadding == (6 * 254) \div 72

FrameWidth(pagesize) == pagesize[1] - 2 * DocMargin - 2 * FramePadding

\* A faulty variant of FrameHeight: margins of 7 cm.
FrameHeightWideMargins(pagesize) == pagesize[2] - 2 * (7 * cm) - 2 * FramePadding

\* The height of the frame of a fresh page.
FrameHeight(pagesize) == pagesize[2] - 2 * DocMargin - 2 * FramePadding

\* The heights left in the frame when the image arrives: the frame calls wrap
\* only with a positive height.
Remaining(pagesize) ==
    {1, MIN_HEIGHT_PT - 1, MIN_HEIGHT_PT, 12 * cm, FrameHeight(pagesize)}

\* The height of the headings of the group that move to the fresh page with
\* the image: none, or up to 3 cm.
GroupBefore == {0, 3 * cm}

\* The most moves of one image to a fresh page that are followed.
MaxDeferrals == 3

InitPage ==
    /\ NoConversion
    /\ NoFormat
    /\ NoRender
    /\ NoHtml
    /\ NoCli
    /\ img_width_px \in 1..MaxPx
    /\ img_height_px \in 1..MaxPx
    /\ display = <<>>
    /\ wrap_args = <<>>
    /\ wrap_ret = <<>>
    /\ page_size \in {"a4", "a3", "letter"}
    /\ orientation \in {"portrait", "landscape"}
    /\ final_pagesize = get_page_size(page_size, orientation)
    /\ before \in GroupBefore
    /\ avail \in Remaining(final_pagesize)
    /\ deferrals = 0
    /\ placed = FALSE

\* The frame calls wrap with the height it has left. An image higher than
\* that is moved to a fresh page, whose frame is empty but for the headings
\* of the group; any other image is put on the page.
PlaceImage ==
    /\ ~placed
    /\ deferrals < MaxDeferrals
    /\ wrap(FrameWidth(final_pagesize), avail)
    /\ IF FGt(wrap_ret'[2], Frac(avail, 1))
       THEN /\ deferrals' = deferrals + 1
            /\ avail' = FrameHeight(final_pagesize) - before
            /\ UNCHANGED placed
       ELSE /\ placed' = TRUE
            /\ UNCHANGED <<deferrals, avail>>
    /\ UNCHANGED <<page_size, orientation, final_pagesize, before>>

NextPage == PlaceImage

SpecPage == InitPage /\ [][NextPage]_vars

MaxMatches == 3

\* The names of the temporary files: the k-th PNG, and the HTML file.
PngFile(k) == <<"png", k>>

HtmlFile == <<"html", 1>>

InitHtml ==
    /\ NoConversion
    /\ NoImage
    /\ NoFormat
    /\ NoRender
    /\ NoPage
    /\ NoCli
    /\ html_pc = "mermaid"
    /\ html_enable_mermaid \in BOOLEAN
    /\ html_playwright \in BOOLEAN
    /\ matches \in 0..MaxMatches
    /\ temp_images = <<>>
    /\ html_path = <<>>
    /\ on_disk = {}
    /\ html_unlinked = {}
    /\ html_result = <<>>

\* return {'success': success, ...}, by the return statement or by the except
\* clause of convert_markdown_to_pdf_html.
ReturnHtml(success) ==
    /\ html_pc' = "returned"
    /\ html_result' = [success |-> success, method |-> "html_playwright"]

\* markdown_to_html with enable_mermaid false, and _process_mermaid_diagrams
\* without Playwright: no block is rendered.
SkipMermaid ==
    /\ html_pc = "mermaid"
    /\ ~(html_enable_mermaid /\ html_playwright)
    /\ html_pc' = "html"
    /\ UNCHANGED <<html_enable_mermaid, html_playwright, matches, temp_images, html_path,
                   on_disk, html_unlinked, html_result>>
    /\ UNCHANGED <<passVars, imageVars, formatVars, renderVars, pageVars, cliVars>>

\* One iteration of the loop over the mermaid blocks: the temporary PNG is
\* made and appended to temp_images, then the block is rendered and the image
\* read. The outcomes:
\*   tmpfail   NamedTemporaryFile raises
\*   false     render_mermaid_to_png returns False
\*   ok        the image is rendered, read and put in the text
\*   readfail  the image is rendered and open or read raises
\* An exception ends the loop: the except clause prints a warning and the
\* function returns the list as it is.
RenderMatch ==
    /\ html_pc = "mermaid"
    /\ html_enable_mermaid /\ html_playwright
    /\ matches > 0
    /\ \E outcome \in {"tmpfail", "false", "ok", "readfail"} :
          /\ IF outcome = "tmpfail"
             THEN UNCHANGED <<temp_images, on_disk>>
             ELSE /\ temp_images' = Append(temp_images, PngFile(Len(temp_images) + 1))
                  /\ on_disk' = on_disk \cup {PngFile(Len(temp_images) + 1)}
          /\ IF outcome \in {"tmpfail", "readfail"}
             THEN html_pc' = "html" /\ UNCHANGED matches
             ELSE matches' = matches - 1 /\ UNCHANGED html_pc
    /\ UNCHANGED <<html_enable_mermaid, html_playwright, html_path, html_unlinked,
                   html_result>>
    /\ UNCHANGED <<passVars, imageVars, formatVars, renderVars, pageVars, cliVars>>

\* return markdown_text, temp_images after the last block; markdown_to_html
\* keeps the list in a local it never reads again.
EndMatches ==
    /\ html_pc = "mermaid"
    /\ html_enable_mermaid /\ html_playwright
    /\ matches = 0
    /\ html_pc' = "html"
    /\ UNCHANGED <<html_enable_mermaid, html_playwright, matches, temp_images, html_path,
                   on_disk, html_unlinked, html_result>>
    /\ UNCHANGED <<passVars, imageVars, formatVars, renderVars, pageVars, cliVars>>

\* md.convert and the template of markdown_to_html: the HTML is returned, or
\* an exception reaches the except clause of convert_markdown_to_pdf_html.
MarkdownToHtml ==
    /\ html_pc = "html"
    /\ \E raises \in BOOLEAN :
          IF raises THEN ReturnHtml(FALSE)
          ELSE html_pc' = "pdf" /\ UNCHANGED html_result
    /\ UNCHANGED <<html_enable_mermaid, html_playwright, matches, temp_images, html_path,
                   on_disk, html_unlinked>>
    /\ UNCHANGED <<passVars, imageVars, formatVars, renderVars, pageVars, cliVars>>

\* The files html_to_pdf_playwright calls os.unlink on: the HTML file, after
\* the browser session has ended without an exception.
UnlinkedAfter(outcome) == IF outcome \in {"ok", "unlinkfail"} THEN {HtmlFile} ELSE {}

\* html_to_pdf_playwright. The outcomes:
\*   noimport     playwright.async_api cannot be imported
\*   tmpfail      NamedTemporaryFile raises
\*   writefail    the HTML file is made and f.write raises
\*   sessionfail  the HTML file is written and the browser session raises
\*                before page.pdf has written the PDF
\*   closefail    page.pdf has written the PDF and browser.close() or the exit
\*                of the session raises
\*   ok           the PDF is written and the HTML file is unlinked
\*   unlinkfail   the PDF is written and os.unlink raises (and is passed over)
HtmlToPdf ==
    /\ html_pc = "pdf"
    /\ \E outcome \in {"noimport", "tmpfail", "writefail", "sessionfail", "closefail",
                       "ok", "unlinkfail"} :
          /\ html_path' = IF outcome \in {"sessionfail", "closefail", "ok", "unlinkfail"}
                          THEN HtmlFile ELSE html_path
          /\ on_disk' = IF outcome \in {"writefail", "sessionfail", "closefail",
                                        "unlinkfail"}
                        THEN on_disk \cup {HtmlFile} ELSE on_disk
          /\ html_unlinked' = html_unlinked \cup UnlinkedAfter(outcome)
          /\ output_exists' = (output_exists \/ outcome \in {"closefail", "ok", "unlinkfail"})
          /\ ReturnHtml(outcome \in {"ok", "unlinkfail"})
    /\ UNCHANGED <<html_enable_mermaid, html_playwright, matches, temp_images>>
    /\ UNCHANGED <<cli_pc, engine, cli_result, raised, reported_created, exit_code>>
    /\ UNCHANGED <<passVars, imageVars, formatVars, renderVars, pageVars>>

NextHtml == SkipMermaid \/ RenderMatch \/ EndMatches \/ MarkdownToHtml \/ HtmlToPdf

SpecHtml == InitHtml /\ [][NextHtml]_vars

\* C24 as stated: when convert_markdown_to_pdf_html has returned, with
\* success or with failure, every temporary PNG and the temporary HTML file
\* have been released: no temporary file is left on which os.unlink was not
\* called.
C24_HtmlTempFilesReleased ==
    html_pc = "returned" => \A f \in on_disk : f \in html_unlinked

(***************************************************************************)
(* Every block consumed once and in order                                   *)
(***************************************************************************)

\* The blocks the loop has consumed.
Consumed == 0..(Min(i, Len(elements)) - 1)

\* The flowables of the story lie in the order of the blocks they were made
\* from, those of one block next to each other: no block is emitted twice or
\* out of its place.
InSourceOrder ==
    /\ \A s \in 1..Len(story) :
          /\ \A m \in 1..(Len(src[s]) - 1) : src[s][m] < src[s][m + 1]
          /\ \A m \in 1..Len(src[s]) : src[s][m] \in Consumed
    /\ \A s \in 1..(Len(story) - 1) :
          src[s] = src[s + 1] \/ src[s][Len(src[s])] < src[s + 1][1]

\* The block at k has flowables in the story.
Emitted(k) == \E s \in 1..Len(story) : k \in Range(src[s])

\* The block at k is a blank line between the members of one group.
BlankInsideGroup(k) ==
    /\ Types(k) = "space"
    /\ \E s \in 1..Len(story) : src[s][1] < k /\ k < src[s][Len(src[s])]

\* The block at k is a table of which the handler keeps no row.
TableWithoutRows(k) == Types(k) = "table" /\ table_data(At(k).content) = <<>>

\* C25 as stated: the flowables are in source order, no block dropped,
\* emitted twice or out of place, and the only consumed blocks without a
\* flowable are blank lines between the members of one group.
C25_EveryBlockEmittedOnce ==
    /\ InSourceOrder
    /\ \A k \in Consumed : Emitted(k) \/ BlankInsideGroup(k)
    /\ \A k \in Consumed : BlankInsideGroup(k) => ~Emitted(k)

\* C25 amended: the flowables are in source order, no block dropped, emitted
\* twice or out of place, and the only consumed blocks without a flowable are
\* blank lines between the members of one group and tables of which the
\* handler keeps no row.
C25_EveryBlockEmittedOnceButEmptyTables ==
    /\ InSourceOrder
    /\ \A k \in Consumed : Emitted(k) \/ BlankInsideGroup(k) \/ TableWithoutRows(k)
    /\ \A k \in Consumed : (BlankInsideGroup(k) \/ TableWithoutRows(k)) => ~Emitted(k)

\* The pass is over on a document that starts with a table of a separator
\* line only: the table left nothing in the story, the block after it did.
C25_Witness ==
    /\ pc = "build"
    /\ Len(elements) = 2
    /\ TableWithoutRows(0)
    /\ Len(story) >= 1 /\ src[1] = <<1>>

(***************************************************************************)
(* parse_markdown and the order of its elements                             *)
(***************************************************************************)

\* The lines of the document that the element at position e began at line
\* at and was made of, for a table element: as many lines as it holds, from
\* the line it began.
TableSourceLines(lines, at, e) ==
    SubSeq(lines, at, Min(Len(lines), at + Len(e.content) - 1))

\* C26: parse_markdown returns its elements in source order: an element that
\* starts on an earlier line precedes one that starts on a later line, also
\* when a table is immediately followed by a fenced block, and every table
\* element holds lines next to each other in the source, not the table lines
\* of both sides of a fenced block.
C26_ElementsInSourceOrder ==
    pc = "parsed" =>
        LET starts == element_starts(markdown_text)
        IN  /\ Len(starts) = Len(elements)
            /\ \A a, b \in 1..Len(starts) : a < b => starts[a] < starts[b]
            /\ \A a \in 1..Len(elements) :
                  elements[a].type = "table" =>
                      elements[a].content = TableSourceLines(markdown_text, starts[a],
                                                             elements[a])

(***************************************************************************)
(* cli.main                                                                 *)
(***************************************************************************)

\* The parameters of the two converters.
Parameters(e) ==
    IF e = "html"
    THEN {"markdown_text", "output_path", "title", "page_size", "orientation",
          "enable_mermaid"}
    ELSE {"markdown_text", "output_path", "title", "enable_mermaid", "page_numbers",
          "page_size", "orientation", "font_name", "mermaid_scale", "mermaid_theme"}

\* The keyword arguments of main's call of the converter of engine e.
Keywords(e) ==
    IF e = "html"
    THEN {"title", "page_size", "orientation", "enable_mermaid"}
    ELSE {"title", "enable_mermaid", "page_numbers", "page_size", "orientation",
          "font_name", "mermaid_scale", "mermaid_theme", "emoji_strategy"}

\* main is called: the engine, the options and the document are any, and a
\* file of an earlier run may lie at the output path.
InitCli ==
    /\ NoConversion
    /\ NoImage
    /\ NoFormat
    /\ NoRender
    /\ NoPage
    /\ cli_pc = "start"
    /\ engine \in {"html", "reportlab"}
    /\ output_exists \in BOOLEAN
    /\ cli_result = <<>>
    /\ raised = "none"
    /\ reported_created = FALSE
    /\ exit_code = <<>>
    /\ html_pc = "idle"
    /\ html_enable_mermaid \in BOOLEAN
    /\ html_playwright \in BOOLEAN
    /\ matches \in 0..MaxMatches
    /\ temp_images = <<>>
    /\ html_path = <<>>
    /\ on_disk = {}
    /\ html_unlinked = {}
    /\ html_result = <<>>

\* The check of the input path, and the reading of the file inside the try.
CliStart ==
    /\ cli_pc = "start"
    /\ \E input \in {"missing", "unreadable", "readable"} :
          /\ cli_pc' = CASE input = "missing" -> "returned"
                         [] input = "unreadable" -> "except"
                         [] input = "readable" -> "convert"
          /\ exit_code' = IF input = "missing" THEN <<1>> ELSE exit_code
          /\ raised' = IF input = "unreadable" THEN "OSError" ELSE raised
    /\ UNCHANGED <<engine, output_exists, cli_result, reported_created>>
    /\ UNCHANGED <<passVars, imageVars, formatVars, renderVars, pageVars, htmlVars>>

\* result = convert_markdown_to_pdf_html(...): the call.
CallHtml ==
    /\ cli_pc = "convert" /\ engine = "html"
    /\ IF Keywords(engine) \subseteq Parameters(engine)
       THEN /\ cli_pc' = "converting"
            /\ html_pc' = "mermaid"
            /\ UNCHANGED raised
       ELSE /\ cli_pc' = "except"
            /\ raised' = "TypeError"
            /\ UNCHANGED html_pc
    /\ UNCHANGED <<engine, output_exists, cli_result, reported_created, exit_code>>
    /\ UNCHANGED <<html_enable_mermaid, html_playwright, matches, temp_images, html_path,
                   on_disk, html_unlinked, html_result>>
    /\ UNCHANGED <<passVars, imageVars, formatVars, renderVars, pageVars>>

\* result = convert_markdown_to_pdf_html(...): the return.
HtmlReturned ==
    /\ cli_pc = "converting" /\ html_pc = "returned"
    /\ cli_result' = html_result
    /\ cli_pc' = "report"
    /\ UNCHANGED <<engine, output_exists, raised, reported_created, exit_code>>
    /\ UNCHANGED <<passVars, imageVars, formatVars, renderVars, pageVars, htmlVars>>

\* result = convert_markdown_to_pdf(...): a keyword the function has no
\* parameter for raises TypeError before its body runs; otherwise the
\* conversion returns its dict with the PDF written, or raises.
CallReportlab ==
    /\ cli_pc = "convert" /\ engine = "reportlab"
    /\ IF Keywords(engine) \subseteq Parameters(engine)
       THEN \E returns \in BOOLEAN :
               /\ cli_pc' = IF returns THEN "report" ELSE "except"
               /\ cli_result' = IF returns
                                THEN [success |-> TRUE, method |-> "reportlab"]
                                ELSE cli_result
               /\ output_exists' = (output_exists \/ returns)
               /\ raised' = IF returns THEN raised ELSE "Exception"
       ELSE /\ cli_pc' = "except"
            /\ raised' = "TypeError"
            /\ UNCHANGED <<cli_result, output_exists>>
    /\ UNCHANGED <<engine, reported_created, exit_code>>
    /\ UNCHANGED <<passVars, imageVars, formatVars, renderVars, pageVars, htmlVars>>

\* Path(output_path).stat(), the line "[OK] PDF created" and return 0; the
\* result of the converter is read for its mermaid counts only.
Report ==
    /\ cli_pc = "report"
    /\ IF output_exists
       THEN /\ reported_created' = TRUE
            /\ exit_code' = <<0>>
            /\ cli_pc' = "returned"
            /\ UNCHANGED raised
       ELSE /\ raised' = "FileNotFoundError"
            /\ cli_pc' = "except"
            /\ UNCHANGED <<reported_created, exit_code>>
    /\ UNCHANGED <<engine, output_exists, cli_result>>
    /\ UNCHANGED <<passVars, imageVars, formatVars, renderVars, pageVars, htmlVars>>

\* except Exception: the error is printed and main returns 1.
CliExcept ==
    /\ cli_pc = "except"
    /\ exit_code' = <<1>>
    /\ cli_pc' = "returned"
    /\ UNCHANGED <<engine, output_exists, cli_result, raised, reported_created>>
    /\ UNCHANGED <<passVars, imageVars, formatVars, renderVars, pageVars, htmlVars>>

NextCli ==
    \/ CliStart \/ CallHtml \/ HtmlReturned \/ CallReportlab \/ Report \/ CliExcept
    \/ SkipMermaid \/ RenderMatch \/ EndMatches \/ MarkdownToHtml \/ HtmlToPdf

SpecCli == InitCli /\ [][NextCli]_vars

\* C27: main returns 0 and reports the PDF as created only when the
\* conversion succeeded; when the result of the converter has success false,
\* main returns a non-zero code, also when a file of an earlier run lies at
\* the output path.
C27_ZeroOnlyOnSuccess ==
    /\ (exit_code = <<0>> \/ reported_created) => (cli_result # <<>> /\ cli_result.success)
    /\ (cli_pc = "returned" /\ cli_result # <<>> /\ ~cli_result.success)
           => (exit_code # <<0>> /\ ~reported_created)

\* C28: for each engine main calls the converter only with keyword arguments
\* the converter has parameters for, so with a readable input file the
\* conversion is run and no TypeError ends main.
C28_KeywordsMatchSignature ==
    /\ cli_pc \in {"convert", "converting"} => Keywords(engine) \subseteq Parameters(engine)
    /\ raised # "TypeError"

(***************************************************************************)
(* remove_hyperlinks run again on its own output                           *)
(***************************************************************************)

\* The pieces the texts are made of: an opening and a closing bracket, a
\* bracketed text, a bracketed reference, a parenthesised url, a colon and a
\* line break.
LinkTokens ==
    { <<"[">>, <<"]">>, <<"[", "a", "]">>, <<"[", "r", "]">>, <<"(", "u", ")">>,
      <<":">>, <<"\n">> }

\* The most pieces of a text.
MaxLinkTokens == 5

LinkTexts == {Flatten(ts) : ts \in SeqsUpTo(LinkTokens, MaxLinkTokens)}

InitLinks ==
    /\ NoConversion
    /\ NoImage
    /\ NoRender
    /\ NoPage
    /\ NoHtml
    /\ NoCli
    /\ text \in LinkTexts
    /\ passes = 0

\* text = remove_hyperlinks(text)
RemoveHyperlinks ==
    /\ passes < MaxPasses
    /\ text' = remove_hyperlinks(text)
    /\ passes' = passes + 1
    /\ UNCHANGED <<passVars, imageVars, renderVars, pageVars, ioVars>>

NextLinks == RemoveHyperlinks

SpecLinks == InitLinks /\ [][NextLinks]_vars

\* An inline link, a reference link or a reference definition is left in s:
\* one of the three patterns of remove_hyperlinks matches somewhere.
LinkLeft(s) ==
    \E k \in 1..Len(s) :
        \/ MatchInlineLink(From(s, k - 1)).len > 0
        \/ MatchRefLink(From(s, k - 1)).len > 0
        \/ (k = 1 \/ s[k - 1] = "\n") /\ MatchRefDef(From(s, k - 1)) > 0

\* C29: remove_hyperlinks is idempotent: a second application changes nothing,
\* no inline link, reference link or reference definition being left after
\* the first, also for bracketed text nested inside link text.
C29_RemoveHyperlinksIdempotent ==
    [][passes >= 1 => (text' = text /\ ~LinkLeft(text))]_vars

(***************************************************************************)
(* The cells of a table row and their columns                               *)
(***************************************************************************)

\* The lines of a table of which the handler keeps a row.
KeptLine(line) ==
    /\ ~contains(line, <<"-", "-", "-">>)
    /\ ~contains(line, <<"=", "=", "=">>)
    /\ StripNonEmpty(split(line, "|")) # <<>>

\* The cells between the pipe delimiters of a line, in their columns: the
\* pieces between the pipes, without what lies before a leading pipe and
\* after a trailing one.
SourceCells(line) ==
    LET pieces == split(line, "|")
        first == IF strip(pieces[1]) = <<>> THEN 2 ELSE 1
        last == IF strip(pieces[Len(pieces)]) = <<>> THEN Len(pieces) - 1 ELSE Len(pieces)
    IN  [c \in 1..(last - first + 1) |-> strip(pieces[first + c - 1])]

\* C30: every kept row of a table keeps its cells in their source columns: the
\* emitted row has as many cells as lie between the pipe delimiters of its
\* line, each at its position, an empty cell staying an empty cell.
C30_CellsKeepTheirColumns ==
    TableDone =>
        LET kept == SelectSeq(At(0).content, KeptLine)
            rows == IF story = <<>> THEN <<>> ELSE story[1].items
        IN  /\ Len(rows) = Len(kept)
            /\ \A r \in 1..Len(kept) :
                  /\ Len(rows[r]) = Len(SourceCells(kept[r]))
                  /\ \A c \in 1..Len(rows[r]) :
                        rows[r][c] = Paragraph(format_cell(SourceCells(kept[r])[c]), "Normal")
=============================================================================
